---- MODULE Spec2Model ----
(***************************************************************************)
(* CMIP6-to-MET extraction and assembly pipeline (src/.cursor/test.py).   *)
(*                                                                         *)
(* Dates are calendar days, held as the number of days since 2000-01-01    *)
(* (proleptic Gregorian calendar, as pandas Timestamps at midnight).       *)
(* A DataFrame is a sequence of rows, a row a record of its columns.       *)
(* A missing number (NaN) and the empty string '' of an object column are  *)
(* two distinguished integers outside the range of the data values.        *)
(***************************************************************************)
EXTENDS Integers, Sequences, FiniteSets, TLC

VARIABLES
  tasmax_df, tasmin_df, pr_df, rsds_df, hurs_df,  \* arguments of create_met_file
  hurs_none,      \* TRUE when hurs_df is None
  merged,         \* the table create_met_file assembles (one row per date)
  met_lines,      \* the data records written to the MET file
  num_rows,       \* third component of create_met_file's return value
  day_check,      \* outcome of the day count: "none", "ok" or "mismatch"
  csv_lines,      \* the rows written to the CSV mirror
  met_pc,         \* position of create_met_file: "call", "table", "done"
  nc_files,       \* the source files of one variable, in sorted name order
  file_idx,       \* index of the next file of the processing loop
  all_data,       \* fragments collected so far, one DataFrame per file
  combined_df,    \* the series extract_daily_data_from_netcdf returns
  ext_pc,         \* position of the extraction: "discover", "sample", "loop",
                  \* "done" (a series is returned), "none" (None is returned)
  variable,       \* the variable id, a sequence of characters
  layout,         \* the entries of netcdf_dir that the patterns can match
  searched,       \* the places file discovery has looked for files, in order
  broken,         \* the file that cannot be read, and how it fails
  entry,          \* how the pipeline is entered: "script" or "call"
  latitude, longitude,      \* the target coordinate of the run, in degrees
  variables,      \* the variables process_coordinate is asked to extract
  data_dir_exists,          \* the directory of the model and scenario exists
  extract_returns,          \* per variable, what its extraction returns
  var_pos,        \* index of the next variable of process_coordinate's loop
  extracted_data, \* the variables extracted so far
  opened,         \* the variables whose source files have been opened
  written,        \* the files written: "met", "csv", a variable for its CSV
  output_dir_created,       \* os.makedirs(OUTPUT_DIR) has run
  run_pc,         \* position of the run: "import", "main", "process",
                  \* "extract", "done"
  result,         \* "pending", "raised", "None" or "summary"
  lat_values, lon_values,   \* latitude and longitude axis of the source grid
  target_lat, target_lon,   \* the target coordinate
  tolerance,      \* coordinate matching tolerance
  lat_idx, lon_idx,         \* cached indices of the grid point; 0 is None
  warned,         \* the nearest point was reported as outside tolerance
  open_files,     \* the source files that are open
  call_pc,        \* position of a function that is applied by itself
  call_args,      \* its arguments
  call_result     \* the value it returns, or its state while it runs

met_vars == <<tasmax_df, tasmin_df, pr_df, rsds_df, hurs_df, hurs_none,
              merged, met_lines, num_rows, day_check, csv_lines, met_pc>>
loc_vars == <<lat_values, lon_values, target_lat, target_lon, tolerance,
              lat_idx, lon_idx, warned>>
dir_vars == <<variable, layout, searched, broken>>
ext_vars == <<nc_files, file_idx, all_data, combined_df, ext_pc, loc_vars, dir_vars,
              open_files>>
run_vars == <<entry, latitude, longitude, variables, data_dir_exists,
              extract_returns, var_pos, extracted_data, opened, written,
              output_dir_created, run_pc, result>>
call_vars == <<call_pc, call_args, call_result>>
vars == <<met_vars, ext_vars, run_vars, call_vars>>

NaN == -999999
EmptyStr == -888888

----------------------------------------------------------------------------
(* Calendar *)

EpochYear == 2000

isleap(y) == (y % 4 = 0 /\ y % 100 # 0) \/ y % 400 = 0

DaysInYear(y) == IF isleap(y) THEN 366 ELSE 365

\* Day number of 1 January of year y (y >= EpochYear).
YearStart(y) ==
  LET n == y - EpochYear
  IN 365 * n + ((n + 3) \div 4) - ((n + 99) \div 100) + ((n + 399) \div 400)

\* Timestamp(year=y, month=12, day=31)
LastDayOfYear(y) == YearStart(y + 1) - 1

\* .year of a date
YearOf(d) ==
  LET y0 == EpochYear + (d \div 366)
  IN IF d < YearStart(y0 + 1) THEN y0 ELSE y0 + 1

\* .dayofyear of a date
DayOfYear(d) == d - YearStart(YearOf(d)) + 1

\* The date that is day number doy of year y.
DateOf(y, doy) == YearStart(y) + doy - 1

\* Variant: the end date is excluded.
date_range_EndExclusive(s, e) == [i \in 1..(IF e > s THEN e - s ELSE 0) |-> s + i - 1]

\* pd.date_range(start=s, end=e, freq='D')
date_range(s, e) == [i \in 1..(IF e >= s THEN e - s + 1 ELSE 0) |-> s + i - 1]

\* pd.date_range(start=s, periods=n, freq='D')
date_range_periods(s, n) == [i \in 1..n |-> s + i - 1]

----------------------------------------------------------------------------
(* DataFrame helpers *)

Min(S) == CHOOSE m \in S : \A k \in S : m <= k
Max(S) == 0 - Min({0 - k : k \in S})

\* Force a sequence expression into an explicit tuple.
Mat(s) == s \o <<>>

DatesOf(df) == {df[i].date : i \in DOMAIN df}

\* First row of df carrying date d.
RowAt(df, d) == df[Min({i \in DOMAIN df : df[i].date = d})]

\* The elements of a finite set of integers in ascending order.
SortedSeq(S) ==
  LET n == Cardinality(S)
  IN Mat([k \in 1..n |-> CHOOSE d \in S : Cardinality({e \in S : e < d}) = k - 1])

----------------------------------------------------------------------------
(* create_met_file: assembling the merged weather table *)

\* Numbers of the table are held in units of 10^-4; rsds arrives in whole W/m2.
W_TO_MJ_E4 == 864

\* Variant: the factor is applied twice.
AddValueMj_Twice(df) ==
  Mat([i \in DOMAIN df |->
        [date |-> df[i].date, value |-> df[i].value,
         value_mj |-> IF df[i].value = NaN THEN NaN
                      ELSE (df[i].value * W_TO_MJ_E4 * W_TO_MJ_E4) \div 10000]])

\* rsds_df['value_mj'] = rsds_df['value'] * 0.0864
AddValueMj(df) ==
  Mat([i \in DOMAIN df |->
        [date |-> df[i].date, value |-> df[i].value,
         value_mj |-> IF df[i].value = NaN THEN NaN ELSE df[i].value * W_TO_MJ_E4]])

\* df.rename(columns={'value': name}) on a (date, value) frame
RenameValue(df, name) ==
  Mat([i \in DOMAIN df |-> ("date" :> df[i].date) @@ (name :> df[i].value)])

\* Variant: how='left', the dates of right that left lacks are dropped.
OuterMerge_Left(left, cols, right, rcol, newcol) ==
  LET rd == DatesOf(right)
  IN Mat([k \in 1..Len(left) |->
        left[k] @@ (newcol :> (IF left[k].date \in rd
                               THEN RowAt(right, left[k].date)[rcol] ELSE NaN))])

\* left.merge(right[['date', rcol]], on='date', how='outer') followed by the
\* rename of rcol to newcol; cols are the columns of left.  Dates are unique
\* in both frames.
OuterMerge(left, cols, right, rcol, newcol) ==
  LET ld == DatesOf(left)
      rd == DatesOf(right)
      ds == SortedSeq(ld \cup rd)
  IN Mat([k \in 1..Len(ds) |->
        LET d == ds[k]
            l == IF d \in ld THEN RowAt(left, d)
                 ELSE [c \in cols |-> IF c = "date" THEN d ELSE NaN]
            v == IF d \in rd THEN RowAt(right, d)[rcol] ELSE NaN
        IN l @@ (newcol :> v)])

\* df.sort_values('date').reset_index(drop=True) for a frame whose dates are
\* unique (the order of equal dates does not arise).
SortUniqueByDate(df) ==
  LET ds == SortedSeq(DatesOf(df))
  IN Mat([k \in 1..Len(ds) |-> RowAt(df, ds[k])])

\* The four outer joins and the sort, lines 1369-1400.
MergeAll(tmax, tmin, pr, rsds) ==
  LET m1 == RenameValue(tmax, "maxt")
      m2 == OuterMerge(m1, {"date", "maxt"}, tmin, "value", "mint")
      m3 == OuterMerge(m2, {"date", "maxt", "mint"}, pr, "value", "rain")
      m4 == OuterMerge(m3, {"date", "maxt", "mint", "rain"},
                       AddValueMj(rsds), "value_mj", "radn")
  IN SortUniqueByDate(m4)

\* Variant: the last year is not completed.
ExtendedMaxDate_NoExtend(max_date) == max_date

\* max_date after the extension to the end of its year, lines 1405-1413.
ExtendedMaxDate(max_date) ==
  LET last_day_of_year == LastDayOfYear(YearOf(max_date))
  IN IF max_date < last_day_of_year THEN last_day_of_year ELSE max_date

\* complete_date_range, line 1416
CompleteDateRange(m) ==
  LET min_date == Min(DatesOf(m))
      max_date == Max(DatesOf(m))
  IN Mat(date_range(min_date, ExtendedMaxDate(max_date)))

NumericCols == {"maxt", "mint", "rain", "radn"}

\* merged.set_index('date').reindex(complete_date_range), one column
ReindexCol(m, rng, col) ==
  LET ds == DatesOf(m)
  IN Mat([i \in 1..Len(rng) |->
        IF rng[i] \in ds THEN RowAt(m, rng[i])[col] ELSE NaN])

\* Series.ffill(): a missing entry takes the last valid entry before it.
ffill(col) ==
  LET V == {i \in 1..Len(col) : col[i] # NaN}
      last == Max(V)
  IN Mat([i \in 1..Len(col) |->
        IF col[i] # NaN THEN col[i]
        ELSE IF V = {} THEN NaN
        ELSE IF i > last THEN col[last]
        ELSE LET P == {j \in V : j < i}
             IN IF P = {} THEN NaN ELSE col[Max(P)]])

\* Series.bfill(): a missing entry takes the next valid entry after it.
bfill(col) ==
  LET V == {i \in 1..Len(col) : col[i] # NaN}
      first == Min(V)
  IN Mat([i \in 1..Len(col) |->
        IF col[i] # NaN THEN col[i]
        ELSE IF V = {} THEN NaN
        ELSE IF i < first THEN col[first]
        ELSE LET P == {j \in V : j > i}
             IN IF P = {} THEN NaN ELSE col[Min(P)]])

\* Series.fillna(v)
fillna(col, v) == Mat([i \in 1..Len(col) |-> IF col[i] = NaN THEN v ELSE col[i]])

\* Variant: backward fill before forward fill.
FillNumeric_BackFirst(col) == fillna(ffill(bfill(col)), 0)

\* Lines 1431-1437 for one numeric column.
FillNumeric(col) == fillna(bfill(ffill(col)), 0)

----------------------------------------------------------------------------
(* create_met_file: vapor pressure *)

\* range.merge(df[['date', 'value']], on='date', how='left') then
\* ffill().bfill() of the value column, lines 1444-1463.
CompleteValue(rng, df) ==
  LET ds == DatesOf(df)
      raw == Mat([i \in 1..Len(rng) |->
                IF rng[i] \in ds THEN RowAt(df, rng[i]).value ELSE NaN])
  IN bfill(ffill(raw))

\* 10 * (hurs/100) * e_s((tasmax + tasmin)/2) is a number exactly when its
\* three arguments are; the number is identified by its arguments.
VpRadix == 1000000

calculate_vapor_pressure(hurs, tmax, tmin) ==
  Mat([i \in 1..Len(hurs) |->
        IF hurs[i] = NaN \/ tmax[i] = NaN \/ tmin[i] = NaN THEN NaN
        ELSE hurs[i] * VpRadix + (tmax[i] + tmin[i])])

\* Variant: the test on hurs_df is inverted.
VpColumn_Inverted(rng, hurs, hnone, tmax, tmin) ==
  IF hnone \/ Len(hurs) = 0
  THEN calculate_vapor_pressure(CompleteValue(rng, hurs),
                                CompleteValue(rng, tmax),
                                CompleteValue(rng, tmin))
  ELSE Mat([i \in 1..Len(rng) |-> NaN])

\* The vp column before the day-366 fix, lines 1441-1481.
VpColumn(rng, hurs, hnone, tmax, tmin) ==
  IF ~hnone /\ Len(hurs) > 0
  THEN calculate_vapor_pressure(CompleteValue(rng, hurs),
                                CompleteValue(rng, tmax),
                                CompleteValue(rng, tmin))
  ELSE Mat([i \in 1..Len(rng) |-> NaN])

\* Lines 1501-1523: day 366 takes the vp of day 365 of its year when it has none.
FixDay366(rng, vp) ==
  Mat([i \in 1..Len(rng) |->
        IF DayOfYear(rng[i]) = 366 /\ vp[i] = NaN
        THEN LET d365 == {j \in 1..Len(rng) :
                            /\ YearOf(rng[j]) = YearOf(rng[i])
                            /\ DayOfYear(rng[j]) = 365}
             IN IF d365 = {} THEN vp[i] ELSE vp[Min(d365)]
        ELSE vp[i]])

\* Lines 1536-1548 (repeated on met_data at 1565-1579): '' for a missing vp.
FinalVp(vp, hurs, hnone) ==
  IF hnone \/ Len(hurs) = 0
  THEN Mat([i \in 1..Len(vp) |-> IF vp[i] = NaN THEN EmptyStr ELSE vp[i]])
  ELSE LET f == bfill(ffill(vp))
       IN Mat([i \in 1..Len(f) |-> IF f[i] = NaN THEN EmptyStr ELSE f[i]])

\* The assembled table: one row per date of complete_date_range.
BuildTable(tmax, tmin, pr, rsds, hurs, hnone) ==
  LET m    == MergeAll(tmax, tmin, pr, rsds)
      rng  == CompleteDateRange(m)
      maxt == FillNumeric(ReindexCol(m, rng, "maxt"))
      mint == FillNumeric(ReindexCol(m, rng, "mint"))
      rain == FillNumeric(ReindexCol(m, rng, "rain"))
      radn == FillNumeric(ReindexCol(m, rng, "radn"))
      vp   == FinalVp(FixDay366(rng, VpColumn(rng, hurs, hnone, tmax, tmin)),
                      hurs, hnone)
  IN Mat([i \in 1..Len(rng) |->
        [date |-> rng[i], year |-> YearOf(rng[i]), day |-> DayOfYear(rng[i]),
         radn |-> radn[i], maxt |-> maxt[i], mint |-> mint[i], rain |-> rain[i],
         evap |-> EmptyStr, vp |-> vp[i], code |-> "222222"]])

----------------------------------------------------------------------------
(* create_met_file: writing the MET records *)

\* A written numeric field: blank (six spaces) or a number with one decimal,
\* held in tenths.
BlankField == [blank |-> TRUE, tenths |-> 0]

\* f"{v:6.1f}" for v in units of 10^-4: the nearest tenth, ties to even.
RoundTenths(v) ==
  LET q == v \div 1000
      r == v % 1000
  IN IF r > 500 \/ (r = 500 /\ q % 2 = 1) THEN q + 1 ELSE q

NumField(v) == [blank |-> FALSE, tenths |-> RoundTenths(v)]

\* Lines 1622-1646: radn, evap and vp are blank when '' or NaN.
OptField(v) == IF v = EmptyStr \/ v = NaN THEN BlankField ELSE NumField(v)

\* Lines 1651-1654: maxt, mint and rain default to 0.0 when NaN.
ReqField(v) == NumField(IF v = NaN THEN 0 ELSE v)

\* Variant: the code field is left blank.
code_str_Blank == "      "

\* Line 1649
code_str == "222222"

Digits == {"0", "1", "2", "3", "4", "5", "6", "7", "8", "9"}
DigitSeq == <<"0", "1", "2", "3", "4", "5", "6", "7", "8", "9">>
DigitVal(c) == (CHOOSE i \in 1..10 : DigitSeq[i] = c) - 1

\* str(n) of a natural number, as a sequence of characters.
RECURSIVE str(_)
str(n) ==
  IF n < 10 THEN <<DigitSeq[n + 1]>>
  ELSE str(n \div 10) \o <<DigitSeq[(n % 10) + 1]>>

Spaces(n) == Mat([i \in 1..n |-> " "])

\* The width of a format specification is a minimum: shorter text is padded
\* on the left, longer text is kept whole.
rjust(s, w) == IF Len(s) >= w THEN s ELSE Spaces(w - Len(s)) \o s

\* f"{n:4d}"
format_4d(n) == rjust(IF n < 0 THEN <<"-">> \o str(0 - n) ELSE str(n), 4)

\* f"{v:6.1f}" for v in units of 10^-4, or NaN.
format_6_1f(v) ==
  IF v = NaN THEN rjust(<<"n", "a", "n">>, 6)
  ELSE LET t == RoundTenths(v)
           m == IF t < 0 THEN 0 - t ELSE t
       IN rjust((IF v < 0 THEN <<"-">> ELSE <<>>)
                  \o str(m \div 10) \o <<".">> \o str(m % 10), 6)

\* Variant: an absent value is written as 0.0.
OptText_Zero(v) == format_6_1f(IF v = EmptyStr \/ v = NaN THEN 0 ELSE v)

\* Lines 1622-1646: radn_str, evap_str and vp_str.
OptText(v) == IF v = EmptyStr \/ v = NaN THEN Spaces(6) ELSE format_6_1f(v)

\* Lines 1651-1654 and the format of line 1657: maxt_val, mint_val, rain_val.
ReqText(v) == format_6_1f(IF v = NaN THEN 0 ELSE v)

\* The characters of the code field.
CodeText(c) == IF c = "222222" THEN Mat([i \in 1..6 |-> "2"]) ELSE Spaces(6)

\* Line 1657: the text of one data record, without the line feed.
line(row) ==
  format_4d(row.year) \o <<" ">> \o format_4d(row.day) \o <<" ">>
    \o OptText(row.radn) \o <<" ">> \o ReqText(row.maxt) \o <<" ">>
    \o ReqText(row.mint) \o <<" ">> \o ReqText(row.rain) \o <<" ">>
    \o OptText(row.evap) \o <<" ">> \o OptText(row.vp) \o <<" ">>
    \o CodeText(code_str)

\* Line 1657: one data record of the MET file, by field and as text.
MetLine(row) ==
  [year |-> row.year, day |-> row.day,
   radn |-> OptField(row.radn), maxt |-> ReqField(row.maxt),
   mint |-> ReqField(row.mint), rain |-> ReqField(row.rain),
   evap |-> OptField(row.evap), vp |-> OptField(row.vp),
   code |-> code_str, text |-> line(row)]

----------------------------------------------------------------------------
(* Inputs of create_met_file *)

MaxLen == 2       \* rows of one input series
MaxRows == 5      \* rows of all input series together
MaxNaN == 1       \* rows of all input series together that hold NaN

\* Dates of the input rows: the last days of a leap year, where every case of
\* gap filling arises in a table of a few rows, and dates a year apart, where
\* the table spans whole years.
ShortDates == {DateOf(2024, 364), DateOf(2024, 365), DateOf(2024, 366)}
LongDates == {DateOf(2023, 1), DateOf(2024, 1), DateOf(2024, 365)}

\* A value of variable v on date d (10^-4 units; rsds in whole W/m2, hurs in
\* whole percent).
Val(v, d) ==
  CASE v = "tasmax" -> 280000 + 1234 * (d % 10)
    [] v = "tasmin" -> 120000 + 1234 * (d % 10)
    [] v = "pr"     -> 2500 * (d % 10)
    [] v = "rsds"   -> 200 + (d % 10)
    [] v = "hurs"   -> 50 + (d % 10)

\* The series of variable v with a row on each date of S, NaN on those of N.
SeriesFrom(v, S, N) ==
  LET ds == SortedSeq(S)
  IN Mat([k \in 1..Len(ds) |->
        [date |-> ds[k], value |-> IF ds[k] \in N THEN NaN ELSE Val(v, ds[k])]])

NaNCount(df) == Cardinality({i \in DOMAIN df : df[i].value = NaN})

\* The series of v with lo..hi rows on ShortDates and at most nan NaN values.
SeriesSet(v, lo, hi, nan) ==
  UNION {{SeriesFrom(v, S, N) : N \in {M \in SUBSET S : Cardinality(M) <= nan}} :
           S \in {T \in SUBSET ShortDates : Cardinality(T) >= lo /\ Cardinality(T) <= hi}}

Lower(n) == IF n < MaxLen THEN n ELSE MaxLen

ExtIdle ==
  /\ nc_files = <<>>
  /\ file_idx = 1
  /\ all_data = <<>>
  /\ combined_df = <<>>
  /\ ext_pc = "idle"
  /\ lat_values = <<>>
  /\ lon_values = <<>>
  /\ target_lat = 0
  /\ target_lon = 0
  /\ tolerance = 0
  /\ lat_idx = 0
  /\ lon_idx = 0
  /\ warned = FALSE
  /\ variable = <<>>
  /\ layout = <<>>
  /\ searched = <<>>
  /\ broken = [file |-> 0, kind |-> "none"]
  /\ open_files = {}

RunIdle ==
  /\ entry = "none"
  /\ latitude = 0
  /\ longitude = 0
  /\ variables = <<>>
  /\ data_dir_exists = FALSE
  /\ extract_returns = <<>>
  /\ var_pos = 1
  /\ extracted_data = {}
  /\ opened = {}
  /\ written = {}
  /\ output_dir_created = FALSE
  /\ run_pc = "idle"
  /\ result = "pending"

CallIdle ==
  /\ call_pc = "idle"
  /\ call_args = <<>>
  /\ call_result = <<>>

MetStart ==
  /\ merged = <<>>
  /\ met_lines = <<>>
  /\ num_rows = 0
  /\ day_check = "none"
  /\ csv_lines = <<>>
  /\ met_pc = "call"

\* Every required series has a row; hurs is None, empty or a series.
MetInitShort ==
  /\ tasmax_df \in SeriesSet("tasmax", 1, Lower(MaxRows - 3), MaxNaN)
  /\ tasmin_df \in SeriesSet("tasmin", 1, Lower(MaxRows - 2 - Len(tasmax_df)),
                             MaxNaN - NaNCount(tasmax_df))
  /\ pr_df \in SeriesSet("pr", 1, Lower(MaxRows - 1 - Len(tasmax_df) - Len(tasmin_df)),
                         MaxNaN - NaNCount(tasmax_df) - NaNCount(tasmin_df))
  /\ rsds_df \in SeriesSet("rsds", 1,
                           Lower(MaxRows - Len(tasmax_df) - Len(tasmin_df) - Len(pr_df)),
                           MaxNaN - NaNCount(tasmax_df) - NaNCount(tasmin_df)
                                  - NaNCount(pr_df))
  /\ hurs_none \in BOOLEAN
  /\ hurs_df \in (IF hurs_none THEN {<<>>}
                  ELSE SeriesSet("hurs", 0,
                         Lower(MaxRows - Len(tasmax_df) - Len(tasmin_df)
                                       - Len(pr_df) - Len(rsds_df)),
                         MaxNaN - NaNCount(tasmax_df) - NaNCount(tasmin_df)
                                - NaNCount(pr_df) - NaNCount(rsds_df)))

\* One row per series, on dates up to two years apart.
MetInitLong ==
  /\ tasmax_df \in {SeriesFrom("tasmax", {d}, {}) : d \in LongDates}
  /\ tasmin_df \in {SeriesFrom("tasmin", {d}, {}) : d \in LongDates}
  /\ pr_df \in {SeriesFrom("pr", {d}, {}) : d \in LongDates}
  /\ rsds_df \in {SeriesFrom("rsds", {d}, {}) : d \in LongDates}
  /\ hurs_none \in BOOLEAN
  /\ hurs_df \in (IF hurs_none THEN {<<>>}
                  ELSE {SeriesFrom("hurs", {d}, {}) : d \in LongDates})

\* Values at the edges of a six-character field: -9999.0, -999.95, -999.9,
\* 9999.9, 9999.95 and 10000.5.
EdgeValues == {-99990000, -9999500, -9999000, 99999000, 99999500, 100005000}

\* One row per series on one date, the pr value at the edge of its field.
MetInitEdge ==
  \E d \in ShortDates :
    /\ tasmax_df = SeriesFrom("tasmax", {d}, {})
    /\ tasmin_df = SeriesFrom("tasmin", {d}, {})
    /\ pr_df \in {<<[date |-> d, value |-> w]>> : w \in EdgeValues}
    /\ rsds_df = SeriesFrom("rsds", {d}, {})
    /\ hurs_none \in BOOLEAN
    /\ hurs_df = (IF hurs_none THEN <<>> ELSE SeriesFrom("hurs", {d}, {}))

MetInit ==
  /\ MetInitShort \/ MetInitLong \/ MetInitEdge
  /\ MetStart
  /\ ExtIdle
  /\ RunIdle
  /\ CallIdle

\* create_met_file up to the assembled table, lines 1369-1579.  The rsds
\* frame of the caller receives the value_mj column (line 1391).
AssembleTable ==
  /\ met_pc = "call"
  /\ Len(rsds_df) > 0
  /\ merged' = BuildTable(tasmax_df, tasmin_df, pr_df, rsds_df, hurs_df, hurs_none)
  /\ rsds_df' = AddValueMj(rsds_df)
  /\ met_pc' = "table"
  /\ UNCHANGED <<tasmax_df, tasmin_df, pr_df, hurs_df, hurs_none, met_lines, num_rows,
                 day_check, csv_lines>>
  /\ UNCHANGED ext_vars
  /\ UNCHANGED run_vars
  /\ UNCHANGED call_vars

\* sum(366 if calendar.isleap(year) else 365 for year in years), line 1667
RECURSIVE ExpectedDays(_)
ExpectedDays(years) ==
  IF years = {} THEN 0
  ELSE LET y == Min(years) IN DaysInYear(y) + ExpectedDays(years \ {y})

\* Lines 1663-1674: the day count is compared and its outcome printed.
day_count(met_data) ==
  LET years == {met_data[i].year : i \in DOMAIN met_data}
      total_days == Len(met_data)
      expected_days == ExpectedDays(years)
  IN IF total_days = expected_days THEN "ok" ELSE "mismatch"

\* One row of the CSV files: float_format='%.1f', an empty cell for '' and
\* NaN.
CsvLine(row) ==
  [year |-> row.year, day |-> row.day,
   radn |-> OptField(row.radn), maxt |-> OptField(row.maxt),
   mint |-> OptField(row.mint), rain |-> OptField(row.rain),
   evap |-> OptField(row.evap), vp |-> OptField(row.vp)]

\* Variant: the CSV mirror is written only when the day count matches.
to_csv_OnlyWhenMatching(met_data, check) ==
  IF check = "mismatch" THEN <<>>
  ELSE Mat([i \in 1..Len(met_data) |-> CsvLine(met_data[i])])

\* Lines 1688-1696: the CSV mirror, written whatever the day count printed.
to_csv(met_data, check) == Mat([i \in 1..Len(met_data) |-> CsvLine(met_data[i])])

\* Writing the records, the day count, the CSV mirror and the return, lines
\* 1616-1699.
WriteMetFile ==
  /\ met_pc = "table"
  /\ met_lines' = Mat([i \in 1..Len(merged) |-> MetLine(merged[i])])
  /\ day_check' = day_count(merged)
  /\ csv_lines' = to_csv(merged, day_count(merged))
  /\ num_rows' = Len(merged)
  /\ met_pc' = "done"
  /\ UNCHANGED <<tasmax_df, tasmin_df, pr_df, rsds_df, hurs_df, hurs_none, merged>>
  /\ UNCHANGED ext_vars
  /\ UNCHANGED run_vars
  /\ UNCHANGED call_vars

MetNext == AssembleTable \/ WriteMetFile

SpecMet == MetInit /\ [][MetNext]_vars

----------------------------------------------------------------------------
(* convert_to_met_format.py: create_met_file of the CSV converter, which    *)
(* joins tasmax, tasmin and pr and writes the records without gap filling. *)

\* Lines 79-95: the two outer joins and the sort.
convert_merge(tmax, tmin, pr) ==
  LET m1 == RenameValue(tmax, "maxt")
      m2 == OuterMerge(m1, {"date", "maxt"}, tmin, "value", "mint")
      m3 == OuterMerge(m2, {"date", "maxt", "mint"}, pr, "value", "rain")
  IN SortUniqueByDate(m3)

\* Lines 104-115: met_data, with '' in radn, evap, vp and code.
convert_met_data(tmax, tmin, pr) ==
  LET m == convert_merge(tmax, tmin, pr)
  IN Mat([i \in 1..Len(m) |->
        [date |-> m[i].date, year |-> YearOf(m[i].date), day |-> DayOfYear(m[i].date),
         radn |-> EmptyStr, maxt |-> m[i].maxt, mint |-> m[i].mint,
         rain |-> m[i].rain, evap |-> EmptyStr, vp |-> EmptyStr, code |-> EmptyStr]])

\* Line 184: row['maxt'], row['mint'] and row['rain'] are formatted as they are.
convert_value(v) == format_6_1f(v)

\* Lines 157-184: the text of one data record, without the line feed.  The
\* code column holds '' and is written as six spaces.
convert_line(row) ==
  format_4d(row.year) \o <<" ">> \o format_4d(row.day) \o <<" ">>
    \o OptText(row.radn) \o <<" ">> \o convert_value(row.maxt) \o <<" ">>
    \o convert_value(row.mint) \o <<" ">> \o convert_value(row.rain) \o <<" ">>
    \o OptText(row.evap) \o <<" ">> \o OptText(row.vp) \o <<" ">>
    \o Spaces(6)

\* The three series read from the CSV files, lines 229-231.
ConvertInit ==
  /\ tasmax_df \in SeriesSet("tasmax", 0, MaxLen, MaxNaN)
  /\ tasmin_df \in SeriesSet("tasmin", 0, MaxLen, MaxNaN)
  /\ pr_df \in SeriesSet("pr", 0, MaxLen, MaxNaN)
  /\ rsds_df = <<>>
  /\ hurs_df = <<>>
  /\ hurs_none = TRUE
  /\ merged = <<>>
  /\ met_lines = <<>>
  /\ num_rows = 0
  /\ day_check = "none"
  /\ csv_lines = <<>>
  /\ met_pc = "convert_call"
  /\ ExtIdle
  /\ RunIdle
  /\ CallIdle

\* create_met_file up to met_data, lines 79-115.
ConvertMerge ==
  /\ met_pc = "convert_call"
  /\ merged' = convert_met_data(tasmax_df, tasmin_df, pr_df)
  /\ met_pc' = "convert_table"
  /\ UNCHANGED <<tasmax_df, tasmin_df, pr_df, rsds_df, hurs_df, hurs_none,
                 met_lines, num_rows, day_check, csv_lines>>
  /\ UNCHANGED ext_vars
  /\ UNCHANGED run_vars
  /\ UNCHANGED call_vars

\* Writing the records and returning, lines 149-197.
ConvertWrite ==
  /\ met_pc = "convert_table"
  /\ met_lines' = Mat([i \in 1..Len(merged) |->
                        [year |-> merged[i].year, day |-> merged[i].day,
                         text |-> convert_line(merged[i])]])
  /\ csv_lines' = Mat([i \in 1..Len(merged) |-> CsvLine(merged[i])])
  /\ num_rows' = Len(merged)
  /\ UNCHANGED day_check
  /\ met_pc' = "convert_done"
  /\ UNCHANGED <<tasmax_df, tasmin_df, pr_df, rsds_df, hurs_df, hurs_none, merged>>
  /\ UNCHANGED ext_vars
  /\ UNCHANGED run_vars
  /\ UNCHANGED call_vars

ConvertNext == ConvertMerge \/ ConvertWrite

SpecConvert == ConvertInit /\ [][ConvertNext]_vars

----------------------------------------------------------------------------
(* extract_daily_data_from_netcdf: the loop over the files of one variable  *)
(* and the combination of their fragments.  A file is a record of its base  *)
(* name (a sequence of characters), the number n of values at the grid      *)
(* point, and its time coordinate: kind "none" (no coordinate), "decoded"   *)
(* (decode_cf succeeds), "manual" (decoding fails, units are 'days since')  *)
(* or "undecodable" (decoding fails, other units), with len entries, the    *)
(* first of them on date start, one per day.                                *)

\* int(year_str) of the four characters of name from position p.
int(name, p) ==
  1000 * DigitVal(name[p]) + 100 * DigitVal(name[p + 1])
    + 10 * DigitVal(name[p + 2]) + DigitVal(name[p + 3])

\* re.findall(r'\d{4}', filename) from position p on: the scan takes four
\* digits where it finds them and resumes behind them, else moves on by one.
RECURSIVE findall(_, _)
findall(name, p) ==
  IF p + 3 > Len(name) THEN <<>>
  ELSE IF \A j \in p..(p + 3) : name[j] \in Digits
       THEN <<int(name, p)>> \o findall(name, p + 4)
       ELSE findall(name, p + 1)

YEAR_MIN == 2000
YEAR_MAX == 2100
FALLBACK_YEAR == 2035

\* The year of a file name; 0 stands for None.
YearFromName_LastInRange(name) ==
  LET all_years == findall(name, 1)
      ok == {i \in DOMAIN all_years :
               YEAR_MIN <= all_years[i] /\ all_years[i] <= YEAR_MAX}
  IN IF ok = {} THEN 0 ELSE all_years[Max(ok)]

YearFromName(name) ==
  LET all_years == findall(name, 1)
      ok == {i \in DOMAIN all_years :
               YEAR_MIN <= all_years[i] /\ all_years[i] <= YEAR_MAX}
  IN IF ok = {} THEN 0 ELSE all_years[Min(ok)]

\* Variant: the length of the time coordinate is not compared with the
\* number of values.
HasTimeValues_AnyLength(f) == f.time.kind \in {"decoded", "manual"}

\* Method 1 yields time values: the coordinate exists, is as long as the
\* values, and is decoded or converted from 'days since'.
HasTimeValues(f) ==
  /\ f.time.kind \in {"decoded", "manual"}
  /\ f.time.len = f.n

\* Methods 1 and 2.
TimeValues(f) ==
  IF HasTimeValues(f)
  THEN Mat(date_range_periods(f.time.start, f.time.len))
  ELSE LET year == YearFromName(f.name)
       IN IF year # 0
          THEN Mat(date_range_periods(DateOf(year, 1), f.n))
          ELSE Mat(date_range_periods(DateOf(FALLBACK_YEAR, 1), f.n))

\* The dates trimmed or extended to the number of values.
FitLength(time_values, n) ==
  IF Len(time_values) = n THEN time_values
  ELSE IF Len(time_values) > n THEN SubSeq(time_values, 1, n)
  ELSE time_values \o
         Mat(date_range_periods(time_values[Len(time_values)] + 1,
                                n - Len(time_values)))

\* The values of a file at the grid point (lat, lon), line 1140: they tell
\* the grid point, the file and the day.
Values(f, lat, lon) ==
  Mat([i \in 1..f.n |-> 100000 * (10 * lat + lon) + 1000 * f.val + i])

df_file(f, lat, lon) ==
  LET time_values == FitLength(TimeValues(f), f.n)
      values == Values(f, lat, lon)
  IN Mat([i \in 1..f.n |-> [date |-> time_values[i], value |-> values[i]]])

\* pd.concat(all_data, ignore_index=True): the rows of the fragments from
\* k on, each with its new index; src records the fragment of a row.
RECURSIVE concat_from(_, _, _)
concat_from(objs, k, base) ==
  IF k > Len(objs) THEN <<>>
  ELSE Mat([i \in DOMAIN objs[k] |->
              [date |-> objs[k][i].date, value |-> objs[k][i].value,
               src |-> k, index |-> base + i]])
         \o concat_from(objs, k + 1, base + Len(objs[k]))

concat(objs) == concat_from(objs, 1, 0)

reset_index(df) ==
  Mat([i \in DOMAIN df |->
         [date |-> df[i].date, value |-> df[i].value,
          src |-> df[i].src, index |-> i]])

ByDateThenIndex(a, b) ==
  a.date < b.date \/ (a.date = b.date /\ a.index < b.index)

\* The dates that more than one row of df holds.
TiedDates(df) ==
  LET s == SortSeq(df, ByDateThenIndex)
  IN {s[j].date : j \in {i \in 2..Len(s) : s[i].date = s[i - 1].date}}

SrcOf(df, d) == {df[i].src : i \in {j \in DOMAIN df : df[j].date = d}}

\* sort_values('date') sorts with the default kind, quicksort, which is not
\* stable: numpy sorts up to StableSortMax elements by insertion, which keeps
\* the rows of equal dates in their order, and longer arrays by partitioning,
\* which may bring any of them to the front.  A choice names, for each date
\* held more than once, the fragment whose row comes first.
StableSortMax == 16

StableChoice(df) == [d \in TiedDates(df) |-> Min(SrcOf(df, d))]

SortChoices(df) ==
  IF Len(df) <= StableSortMax THEN {StableChoice(df)}
  ELSE LET tied == TiedDates(df)
           srcs == UNION {SrcOf(df, d) : d \in tied}
       IN {first \in [tied -> srcs] : \A d \in tied : first[d] \in SrcOf(df, d)}

sort_values_Unsorted(df, first) == df

sort_values(df, first) ==
  LET key(r) == IF r.date \in DOMAIN first /\ first[r.date] = r.src
                THEN 0 ELSE r.index
      less(a, b) == a.date < b.date \/ (a.date = b.date /\ key(a) < key(b))
  IN SortSeq(df, less)

drop_duplicates_KeepAll(df) ==
  Mat([i \in DOMAIN df |-> [date |-> df[i].date, value |-> df[i].value]])

\* drop_duplicates(subset='date', keep='first'): a row stays when no row
\* before it holds its date.
drop_duplicates(df) ==
  LET s == SortSeq(df, ByDateThenIndex)
      keep == {s[j].index : j \in {i \in DOMAIN s : i = 1 \/ s[i].date # s[i - 1].date}}
      kept(r) == r.index \in keep
      rows == SelectSeq(df, kept)
  IN Mat([i \in DOMAIN rows |-> [date |-> rows[i].date, value |-> rows[i].value]])

\* sorted(glob.glob(...)): the paths of one directory in the order of their
\* characters' code points.
CharOrder ==
  <<".", "0", "1", "2", "3", "4", "5", "6", "7", "8", "9", "_",
    "a", "c", "d", "n", "p", "r", "s", "t", "x", "y">>
ord(c) == CHOOSE i \in DOMAIN CharOrder : CharOrder[i] = c

PathLess(a, b) ==
  \E k \in 1..(Len(a) + 1) :
    /\ \A j \in 1..(k - 1) : j <= Len(b) /\ a[j] = b[j]
    /\ k <= Len(b)
    /\ k > Len(a) \/ ord(a[k]) < ord(b[k])

FileLess(f, g) == PathLess(f.name, g.name)
sorted(files) == SortSeq(files, FileLess)

----------------------------------------------------------------------------
(* File discovery, lines 1002-1054.  netcdf_dir is a record of the entries *)
(* the patterns can match: direct, the files in the directory itself;      *)
(* var_subs and rad_subs, the entries named '{variable}_*' and 'rad_*' in  *)
(* the order glob lists them; var_dir, the entry named as the variable.    *)
(* An entry is a record of isdir and of its files; var_dir also of exists. *)

PR == <<"p", "r">>
RSDS == <<"r", "s", "d", "s">>
DOT_NC == <<".", "n", "c">>

\* fnmatch of a name against '*.nc'.
is_nc(name) ==
  Len(name) >= 3 /\ SubSeq(name, Len(name) - 2, Len(name)) = DOT_NC

\* fnmatch of a name against '*{pat}*.nc'.
has_pattern(name, pat) ==
  /\ is_nc(name)
  /\ \E p \in 1..(Len(name) - 3 - Len(pat) + 1) :
       SubSeq(name, p, p + Len(pat) - 1) = pat

\* sorted(glob.glob(dir/*.nc)) and sorted(glob.glob(dir/*{pat}*.nc)).
glob_nc(files) ==
  LET match(f) == is_nc(f.name) IN sorted(SelectSeq(files, match))

glob_pattern(files, pat) ==
  LET match(f) == has_pattern(f.name, pat) IN sorted(SelectSeq(files, match))

\* Pattern 2: the .nc files of the first listed directory that has any.
RECURSIVE find_in_subdirs(_, _)
find_in_subdirs(subs, k) ==
  IF k > Len(subs) THEN <<>>
  ELSE IF subs[k].isdir /\ glob_nc(subs[k].files) # <<>>
       THEN glob_nc(subs[k].files)
       ELSE find_in_subdirs(subs, k + 1)

\* Pattern 2b: the first listed directory with files named by rsds gives
\* them, one with other .nc files only gives those.
RECURSIVE find_in_rad(_, _)
find_in_rad(subs, k) ==
  IF k > Len(subs) THEN <<>>
  ELSE IF subs[k].isdir /\ glob_pattern(subs[k].files, RSDS) # <<>>
       THEN glob_pattern(subs[k].files, RSDS)
       ELSE IF subs[k].isdir /\ glob_nc(subs[k].files) # <<>>
            THEN glob_nc(subs[k].files)
            ELSE find_in_rad(subs, k + 1)

\* Pattern 3.
find_in_var_dir(d) ==
  IF d.exists /\ d.isdir THEN glob_nc(d.files) ELSE <<>>

uses_rad_AnyVariable(var) == TRUE

\* The test of the variable at line 1019.
uses_rad(var) == var = RSDS

\* The result of discovery: files, the files found, and searched, the
\* places looked at.
discover(var, dir) ==
  LET p1 == glob_pattern(dir.direct, var)
      s1 == <<"direct">>
      go2 == Len(p1) = 0
      p2 == IF go2 THEN find_in_subdirs(dir.var_subs, 1) ELSE p1
      s2 == IF go2 THEN Append(s1, "var_subs") ELSE s1
      go2b == Len(p2) = 0 /\ uses_rad(var)
      p2b == IF go2b THEN find_in_rad(dir.rad_subs, 1) ELSE p2
      s2b == IF go2b THEN Append(s2, "rad_subs") ELSE s2
      go3 == Len(p2b) = 0
      p3 == IF go3 THEN find_in_var_dir(dir.var_dir) ELSE p2b
      s3 == IF go3 THEN Append(s2b, "var_dir") ELSE s2b
  IN [files |-> p3, searched |-> s3]

----------------------------------------------------------------------------
(* The grid point of the target coordinate, lines 1109-1130.  Coordinates   *)
(* and the tolerance are held in hundredths of a degree.                   *)

abs(x) == IF x < 0 THEN 0 - x ELSE x

argmin_LastTie(a) == Max({i \in DOMAIN a : \A j \in DOMAIN a : a[i] <= a[j]})

\* np.argmin of a non-empty array: the scan keeps the index of the first
\* element smaller than all before it.
RECURSIVE argmin_scan(_, _, _)
argmin_scan(a, k, best) ==
  IF k > Len(a) THEN best
  ELSE argmin_scan(a, k + 1, IF a[k] < a[best] THEN k ELSE best)

argmin(a) == argmin_scan(a, 2, 1)

\* np.abs(values - target).argmin(); an empty axis raises, the exception is
\* caught at line 1125 and the index stays None (0).
nearest_idx(values, target) ==
  IF Len(values) = 0 THEN 0
  ELSE argmin(Mat([i \in DOMAIN values |-> abs(values[i] - target)]))

\* The test of line 1118.
outside_tolerance(actual_lat, actual_lon, lat, lon, tol) ==
  abs(actual_lat - lat) > tol \/ abs(actual_lon - lon) > tol

\* Reading a file fails when it is the broken one: kind "open" when
\* xr.open_dataset raises, kind "data" when reading its values does.
NoBroken == [file |-> 0, kind |-> "none"]
open_fails(f, b) == b.kind = "open" /\ b.file = f.val

read_fails_OpenOnly(f, b) == b.kind = "open" /\ b.file = f.val

read_fails(f, b) == b.kind \in {"open", "data"} /\ b.file = f.val

\* The sample file is opened at line 1074, its coordinates are read and it
\* is closed at line 1123.
sample_opens(f, b) == ~open_fails(f, b)

after_sample_Strict(lat, lon, outside) ==
  IF lat = 0 \/ lon = 0 \/ outside THEN "none" ELSE "loop"

\* Lines 1128-1130: without grid point the function returns None, otherwise
\* the loop over the files starts.
after_sample(lat, lon, outside) ==
  IF lat = 0 \/ lon = 0 THEN "none" ELSE "loop"

----------------------------------------------------------------------------
(* Inputs of extract_daily_data_from_netcdf *)

MaxFiles == 2     \* files of the variable in the directory
MaxAxis == 2      \* grid points of an axis
MaxSubdirs == 2   \* entries of the directory named '{variable}_*'
ShortLen == 2     \* values of a file that holds a few days only

NoTime == [kind |-> "none", len |-> 0, start |-> 0]

\* The files a directory may hold: whole years and a few days, named by one
\* year, by several four-digit groups or by none, with and without a time
\* coordinate; some of them hold the same dates.
ExtFiles ==
  << \* pr_2024.nc: the leap year 2024
     [name |-> <<"p","r","_","2","0","2","4",".","n","c">>,
      n |-> 366, val |-> 1, time |-> NoTime],
     \* pr_2025.nc: the year 2025
     [name |-> <<"p","r","_","2","0","2","5",".","n","c">>,
      n |-> 365, val |-> 2, time |-> NoTime],
     \* pr_1999_2024.nc: the first days of 2024
     [name |-> <<"p","r","_","1","9","9","9","_","2","0","2","4",".","n","c">>,
      n |-> ShortLen, val |-> 3, time |-> NoTime],
     \* pr_20252024.nc: the first days of 2025
     [name |-> <<"p","r","_","2","0","2","5","2","0","2","4",".","n","c">>,
      n |-> ShortLen, val |-> 4, time |-> NoTime],
     \* pr_120250101.nc: no group of four digits lies in the range
     [name |-> <<"p","r","_","1","2","0","2","5","0","1","0","1",".","n","c">>,
      n |-> 1, val |-> 5, time |-> NoTime],
     \* pr_day.nc: no digits
     [name |-> <<"p","r","_","d","a","y",".","n","c">>,
      n |-> ShortLen, val |-> 6, time |-> NoTime],
     \* pr_2100.nc: a time coordinate longer than the values
     [name |-> <<"p","r","_","2","1","0","0",".","n","c">>,
      n |-> 1, val |-> 7,
      time |-> [kind |-> "decoded", len |-> 2, start |-> DateOf(2024, 1)]],
     \* pr_1.nc: the year 2026 by its time coordinate
     [name |-> <<"p","r","_","1",".","n","c">>,
      n |-> 365, val |-> 8,
      time |-> [kind |-> "decoded", len |-> 365, start |-> DateOf(2026, 1)]],
     \* pr_2024.nc: days from 2025-12-31 on by 'days since' offsets
     [name |-> <<"p","r","_","2","0","2","4",".","n","c">>,
      n |-> ShortLen, val |-> 9,
      time |-> [kind |-> "manual", len |-> ShortLen, start |-> DateOf(2025, 365)]],
     \* pr_2101_2000.nc: a time coordinate that cannot be converted
     [name |-> <<"p","r","_","2","1","0","1","_","2","0","0","0",".","n","c">>,
      n |-> 1, val |-> 10,
      time |-> [kind |-> "undecodable", len |-> 1, start |-> DateOf(2024, 1)]],
     \* pr_0.nc: no values
     [name |-> <<"p","r","_","0",".","n","c">>,
      n |-> 0, val |-> 11, time |-> NoTime] >>

MetIdle ==
  /\ tasmax_df = <<>>
  /\ tasmin_df = <<>>
  /\ pr_df = <<>>
  /\ rsds_df = <<>>
  /\ hurs_df = <<>>
  /\ hurs_none = TRUE
  /\ merged = <<>>
  /\ met_lines = <<>>
  /\ num_rows = 0
  /\ day_check = "none"
  /\ csv_lines = <<>>
  /\ met_pc = "idle"

\* Axis values: neither sorted nor evenly spaced, some of them twice.
AxisValues == {-3200, -3175, -3125}
Axes == UNION {[1..n -> AxisValues] : n \in 0..MaxAxis}
Injective(a) == \A i \in DOMAIN a : \A j \in DOMAIN a : i # j => a[i] # a[j]

\* Targets on a grid point, half way between two and off the axis.
Targets == {-3175, -3150, -3187, -3000}

Tolerances == {1, 100000}

NoDir == [exists |-> FALSE, isdir |-> FALSE, files |-> <<>>]

\* A directory that holds the given files and nothing else the patterns match.
FlatDir(files) ==
  [direct |-> files, var_subs |-> <<>>, rad_subs |-> <<>>, var_dir |-> NoDir]

\* A file of one value under the given name.
OneDay(name, val) == [name |-> name, n |-> 1, val |-> val, time |-> NoTime]

DAY_NC == <<"d", "a", "y", "_", "2", "0", "2", "4", ".", "n", "c">>
RAD_NC == <<"r", "a", "d", "_", "2", "0", "2", "4", ".", "n", "c">>
RSDS_NC == <<"r", "s", "d", "s", "_", "2", "0", "2", "4", ".", "n", "c">>
TAS_NC == <<"t", "a", "s", ".", "n", "c">>
SUFFIX_2024_NC == <<"_", "2", "0", "2", "4", ".", "n", "c">>
SUFFIX_TXT == <<".", "t", "x", "t">>

\* The files directly in the directory: one named by the variable, one
\* named otherwise, one that is no .nc file.
DirectFiles(var) ==
  {<<>>,
   <<OneDay(TAS_NC, 22), OneDay(var \o SUFFIX_TXT, 23)>>,
   <<OneDay(TAS_NC, 22), OneDay(var \o SUFFIX_2024_NC, 21)>>}

\* An entry named '{variable}_*': a plain file, an empty directory, a
\* directory without .nc file, one with two .nc files.
VarSub(k) ==
  {[isdir |-> FALSE, files |-> <<>>],
   [isdir |-> TRUE, files |-> <<>>],
   [isdir |-> TRUE, files |-> <<OneDay(PR \o SUFFIX_TXT, 30 + k)>>],
   [isdir |-> TRUE, files |-> <<OneDay(TAS_NC, 32 + 2 * k), OneDay(DAY_NC, 33 + 2 * k)>>]}

VarSubs ==
  UNION {{s \in [1..n -> UNION {VarSub(k) : k \in 1..n}] : \A k \in 1..n : s[k] \in VarSub(k)} :
           n \in 0..MaxSubdirs}

\* The entries named 'rad_*': none, a plain file, a directory with a file
\* named by rsds and another, a directory whose files are named otherwise.
RadSubs ==
  {<<>>,
   <<[isdir |-> FALSE, files |-> <<>>]>>,
   <<[isdir |-> TRUE, files |-> <<OneDay(RAD_NC, 41), OneDay(RSDS_NC, 42)>>]>>,
   <<[isdir |-> TRUE, files |-> <<OneDay(RAD_NC, 43)>>],
     [isdir |-> TRUE, files |-> <<OneDay(RSDS_NC, 44)>>]>>}

\* The entry named as the variable: none, a plain file, an empty directory,
\* a directory with a .nc file.
VarDirs ==
  {NoDir,
   [exists |-> TRUE, isdir |-> FALSE, files |-> <<>>],
   [exists |-> TRUE, isdir |-> TRUE, files |-> <<>>],
   [exists |-> TRUE, isdir |-> TRUE, files |-> <<OneDay(DAY_NC, 51)>>]}

OneCell ==
  /\ lat_values = <<-3175>>
  /\ lon_values = <<11760>>
  /\ target_lat = -3175
  /\ target_lon = 11760
  /\ tolerance = 1

\* Any layout of the directory, for pr and for rsds.
ExtInitDirs ==
  /\ variable \in {PR, RSDS}
  /\ \E direct \in DirectFiles(variable) :
       \E var_subs \in VarSubs : \E rad_subs \in RadSubs : \E var_dir \in VarDirs :
         layout = [direct |-> direct, var_subs |-> var_subs,
                   rad_subs |-> rad_subs, var_dir |-> var_dir]
  /\ broken = NoBroken
  /\ OneCell

\* The directory holds 1..MaxFiles files of distinct names, listed in any
\* order.  The grid has one point, the target.
ExtInitFiles ==
  /\ variable = PR
  /\ \E S \in SUBSET (1..Len(ExtFiles)) :
       /\ Cardinality(S) >= 1
       /\ Cardinality(S) <= MaxFiles
       /\ \A i \in S : \A j \in S : i # j => ExtFiles[i].name # ExtFiles[j].name
       /\ layout = FlatDir(Mat([k \in 1..Cardinality(S) |-> ExtFiles[SortedSeq(S)[k]]]))
       /\ broken \in {NoBroken} \cup
                      {[file |-> ExtFiles[i].val, kind |-> k] :
                         i \in S, k \in {"open", "data"}}
  /\ lat_values = <<-3175>>
  /\ lon_values = <<11760>>
  /\ target_lat = -3175
  /\ target_lon = 11760
  /\ tolerance = 1

\* One file of a few days on any grid, for any target and tolerance.
ExtInitGrid ==
  /\ variable = PR
  /\ layout = FlatDir(<<ExtFiles[3]>>)
  /\ broken = NoBroken
  /\ lat_values \in Axes
  /\ lon_values \in {a \in Axes : Injective(a)}
  /\ target_lat \in Targets
  /\ target_lon \in {-3150, -3000}
  /\ tolerance \in Tolerances

\* The call of extract_daily_data_from_netcdf.
ExtInit ==
  /\ ExtInitFiles \/ ExtInitGrid \/ ExtInitDirs
  /\ nc_files = <<>>
  /\ searched = <<>>
  /\ file_idx = 1
  /\ all_data = <<>>
  /\ combined_df = <<>>
  /\ ext_pc = "discover"
  /\ open_files = {}
  /\ lat_idx = 0
  /\ lon_idx = 0
  /\ warned = FALSE
  /\ MetIdle
  /\ RunIdle
  /\ CallIdle

\* File discovery, lines 1002-1056: without files the function returns None.
Discover ==
  /\ ext_pc = "discover"
  /\ LET found == discover(variable, layout)
     IN /\ nc_files' = found.files
        /\ searched' = found.searched
        /\ ext_pc' = IF Len(found.files) = 0 THEN "none" ELSE "sample"
  /\ UNCHANGED <<file_idx, all_data, combined_df, variable, layout, broken>>
  /\ UNCHANGED loc_vars
  /\ UNCHANGED open_files
  /\ UNCHANGED met_vars
  /\ UNCHANGED run_vars
  /\ UNCHANGED call_vars

\* The first file gives the coordinate structure, lines 1071-1130.
ReadSample ==
  /\ ext_pc = "sample"
  /\ LET opens == sample_opens(nc_files[1], broken)
         lat == IF opens THEN nearest_idx(lat_values, target_lat) ELSE 0
         lon == IF lat = 0 THEN 0 ELSE nearest_idx(lon_values, target_lon)
         outside == /\ lat # 0
                    /\ lon # 0
                    /\ outside_tolerance(lat_values[lat], lon_values[lon],
                                         target_lat, target_lon, tolerance)
     IN /\ lat_idx' = lat
        /\ lon_idx' = lon
        /\ warned' = outside
        /\ ext_pc' = after_sample(lat, lon, outside)
  /\ UNCHANGED <<nc_files, file_idx, all_data, combined_df>>
  /\ UNCHANGED <<lat_values, lon_values, target_lat, target_lon, tolerance>>
  /\ UNCHANGED dir_vars
  /\ UNCHANGED open_files
  /\ UNCHANGED met_vars
  /\ UNCHANGED run_vars
  /\ UNCHANGED call_vars

\* Lines 1137-1220: ds.close() is the last statement of the try block, so a
\* file that was opened and whose reading raises is left open.
still_open(f, b) == IF read_fails(f, b) /\ ~open_fails(f, b) THEN {f.val} ELSE {}

\* One pass of the loop over nc_files, lines 1134-1220: a file that cannot
\* be read is reported and skipped.
ProcessFile ==
  /\ ext_pc = "loop"
  /\ file_idx <= Len(nc_files)
  /\ LET f == nc_files[file_idx]
     IN all_data' = IF f.n > 0 /\ ~read_fails(f, broken)
                    THEN Append(all_data, df_file(f, lat_idx, lon_idx))
                    ELSE all_data
  /\ open_files' = open_files \cup still_open(nc_files[file_idx], broken)
  /\ file_idx' = file_idx + 1
  /\ UNCHANGED <<nc_files, combined_df, ext_pc>>
  /\ UNCHANGED loc_vars
  /\ UNCHANGED dir_vars
  /\ UNCHANGED met_vars
  /\ UNCHANGED run_vars
  /\ UNCHANGED call_vars

\* No file yielded data: the function returns None, lines 1222-1224.
ReturnNone ==
  /\ ext_pc = "loop"
  /\ file_idx > Len(nc_files)
  /\ Len(all_data) = 0
  /\ ext_pc' = "none"
  /\ UNCHANGED <<nc_files, file_idx, all_data, combined_df>>
  /\ UNCHANGED loc_vars
  /\ UNCHANGED dir_vars
  /\ UNCHANGED open_files
  /\ UNCHANGED met_vars
  /\ UNCHANGED run_vars
  /\ UNCHANGED call_vars

\* The fragments are combined, sorted and freed of duplicate dates, and the
\* series is returned, lines 1226-1240.
Combine ==
  /\ ext_pc = "loop"
  /\ file_idx > Len(nc_files)
  /\ Len(all_data) > 0
  /\ LET df == concat(all_data)
     IN \E first \in SortChoices(df) :
          combined_df' = drop_duplicates(reset_index(sort_values(df, first)))
  /\ ext_pc' = "done"
  /\ UNCHANGED <<nc_files, file_idx, all_data>>
  /\ UNCHANGED loc_vars
  /\ UNCHANGED dir_vars
  /\ UNCHANGED open_files
  /\ UNCHANGED met_vars
  /\ UNCHANGED run_vars
  /\ UNCHANGED call_vars

ExtNext == Discover \/ ReadSample \/ ProcessFile \/ ReturnNone \/ Combine

SpecExtract == ExtInit /\ [][ExtNext]_vars

----------------------------------------------------------------------------
(* The run: the script (lines 940-1929) and process_coordinate.  Latitude   *)
(* and longitude are whole degrees.  The extraction of a variable is held  *)
(* by what it returns, "data" for a series and "none" for None.            *)

VARIABLES_ALL == <<"tasmax", "tasmin", "pr", "rsds", "hurs">>

required_vars_WithHurs == {"tasmax", "tasmin", "pr", "rsds", "hurs"}

required_vars == {"tasmax", "tasmin", "pr", "rsds"}

\* The tests of lines 1859 and 1861.
coordinate_valid(lat, lon) ==
  /\ -90 <= lat /\ lat <= 90
  /\ -180 <= lon /\ lon <= 180

Latitudes == {-91, -90, -32, 91}
Longitudes == {-181, 118, 181}

\* The variables asked for: all five, all but hurs, all but rsds.
VariableLists ==
  {VARIABLES_ALL,
   <<"tasmax", "tasmin", "pr", "rsds">>,
   <<"tasmax", "tasmin", "pr", "hurs">>}

RunInit ==
  /\ entry \in {"script", "call"}
  /\ latitude \in Latitudes
  /\ longitude \in Longitudes
  /\ variables \in (IF entry = "script" THEN {VARIABLES_ALL} ELSE VariableLists)
  /\ data_dir_exists \in BOOLEAN
  /\ extract_returns \in [{"tasmax", "tasmin", "pr", "rsds", "hurs"} -> {"data", "none"}]
  /\ var_pos = 1
  /\ extracted_data = {}
  /\ opened = {}
  /\ written = {}
  /\ output_dir_created = FALSE
  /\ run_pc = IF entry = "script" THEN "import" ELSE "process"
  /\ result = "pending"
  /\ MetIdle
  /\ ExtIdle
  /\ CallIdle

\* The statements of the script before the main block: line 976 creates the
\* output directory.
ImportModule ==
  /\ run_pc = "import"
  /\ output_dir_created' = TRUE
  /\ run_pc' = "main"
  /\ UNCHANGED <<entry, latitude, longitude, variables, data_dir_exists,
                 extract_returns, var_pos, extracted_data, opened, written, result>>
  /\ UNCHANGED met_vars
  /\ UNCHANGED ext_vars
  /\ UNCHANGED call_vars

\* The main block validates the coordinate, lines 1857-1862, and calls
\* process_coordinate, line 1905.
MainValidate ==
  /\ run_pc = "main"
  /\ IF coordinate_valid(latitude, longitude)
     THEN run_pc' = "process" /\ result' = result
     ELSE run_pc' = "done" /\ result' = "raised"
  /\ UNCHANGED <<entry, latitude, longitude, variables, data_dir_exists,
                 extract_returns, var_pos, extracted_data, opened, written,
                 output_dir_created>>
  /\ UNCHANGED met_vars
  /\ UNCHANGED ext_vars
  /\ UNCHANGED call_vars

\* process_coordinate up to its loop, lines 1729-1744.
ProcessStart ==
  /\ run_pc = "process"
  /\ IF data_dir_exists
     THEN run_pc' = "extract" /\ result' = result
     ELSE run_pc' = "done" /\ result' = "None"
  /\ UNCHANGED <<entry, latitude, longitude, variables, data_dir_exists,
                 extract_returns, var_pos, extracted_data, opened, written,
                 output_dir_created>>
  /\ UNCHANGED met_vars
  /\ UNCHANGED ext_vars
  /\ UNCHANGED call_vars

\* One pass of the loop over the variables, lines 1746-1773: a series is
\* kept and written to its CSV file.
ExtractVariable ==
  /\ run_pc = "extract"
  /\ var_pos <= Len(variables)
  /\ LET v == variables[var_pos]
     IN IF extract_returns[v] = "data"
        THEN /\ extracted_data' = extracted_data \cup {v}
             /\ opened' = opened \cup {v}
             /\ written' = written \cup {v}
        ELSE UNCHANGED <<extracted_data, opened, written>>
  /\ var_pos' = var_pos + 1
  /\ UNCHANGED <<entry, latitude, longitude, variables, data_dir_exists,
                 extract_returns, output_dir_created, run_pc, result>>
  /\ UNCHANGED met_vars
  /\ UNCHANGED ext_vars
  /\ UNCHANGED call_vars

\* After the loop, lines 1775-1851: without a required variable None is
\* returned, else create_met_file writes the MET file and its CSV mirror.
ConvertToMet ==
  /\ run_pc = "extract"
  /\ var_pos > Len(variables)
  /\ IF required_vars \subseteq extracted_data
     THEN written' = written \cup {"met", "csv"} /\ result' = "summary"
     ELSE written' = written /\ result' = "None"
  /\ run_pc' = "done"
  /\ UNCHANGED <<entry, latitude, longitude, variables, data_dir_exists,
                 extract_returns, var_pos, extracted_data, opened,
                 output_dir_created>>
  /\ UNCHANGED met_vars
  /\ UNCHANGED ext_vars
  /\ UNCHANGED call_vars

RunNext ==
  ImportModule \/ MainValidate \/ ProcessStart \/ ExtractVariable \/ ConvertToMet

SpecRun == RunInit /\ [][RunNext]_vars

----------------------------------------------------------------------------
(* Properties of the merged weather table *)

TableBuilt == met_pc \in {"table", "done"}

RowDates == {merged[i].date : i \in DOMAIN merged}
RowYears == {merged[i].year : i \in DOMAIN merged}

RequiredDates ==
  DatesOf(tasmax_df) \cup DatesOf(tasmin_df) \cup DatesOf(pr_df) \cup DatesOf(rsds_df)

HursSupplied == ~hurs_none /\ Len(hurs_df) > 0

\* Dates on which df holds a number.
ValidDates(df) == {df[i].date : i \in {j \in DOMAIN df : df[j].value # NaN}}

\* C1: the table has exactly one row per calendar day between its first and
\* last row: consecutive rows are one day apart, no date occurs twice, and in
\* every leap year of the table day 366 is present, as is 29 February when
\* the table starts on or before it.
C1_OneRowPerDay ==
  TableBuilt =>
    /\ Len(merged) >= 1
    /\ \A i \in 1..(Len(merged) - 1) : merged[i + 1].date = merged[i].date + 1
    /\ Cardinality(RowDates) = Len(merged)
    /\ \A y \in RowYears :
         isleap(y) =>
           /\ \E i \in DOMAIN merged : merged[i].year = y /\ merged[i].day = 366
           /\ merged[1].date <= DateOf(y, 60) =>
                \E i \in DOMAIN merged :
                  merged[i].date = DateOf(y, 60) /\ merged[i].day = 60

\* A table that crosses a year boundary and holds 29 February 2024 and day 366.
C1_Witness ==
  /\ TableBuilt
  /\ Cardinality(RowYears) = 2
  /\ DateOf(2024, 60) \in RowDates
  /\ merged[Len(merged)].day = 366
  /\ Len(merged) > Cardinality(RequiredDates)

C3_RangeWithHurs ==
  TableBuilt =>
    LET all == RequiredDates \cup (IF HursSupplied THEN DatesOf(hurs_df) ELSE {})
    IN /\ merged[1].date = Min(all)
       /\ merged[Len(merged)].date = LastDayOfYear(YearOf(Max(all)))

\* C3 amended: the first row is the earliest date of tasmax, tasmin, pr and
\* rsds and the last row the 31 December of the year of their latest date;
\* the dates of hurs do not enter the range.
C3_RangeOfRequired ==
  TableBuilt =>
    /\ merged[1].date = Min(RequiredDates)
    /\ merged[Len(merged)].date = LastDayOfYear(YearOf(Max(RequiredDates)))
    /\ merged[Len(merged)].day = DaysInYear(merged[Len(merged)].year)

\* The earliest date is not one of tasmax, the last year is completed, and
\* hurs holds a date before the first row.
C3_Witness ==
  /\ TableBuilt
  /\ merged[1].date < Min(DatesOf(tasmax_df))
  /\ merged[Len(merged)].date > Max(RequiredDates)
  /\ HursSupplied
  /\ Min(DatesOf(hurs_df)) < merged[1].date

\* The value the input series df gives column col on date d, before filling.
Converted(col, v) == IF col = "radn" THEN v * W_TO_MJ_E4 ELSE v

SeriesOfCol(col) ==
  CASE col = "maxt" -> tasmax_df
    [] col = "mint" -> tasmin_df
    [] col = "rain" -> pr_df
    [] col = "radn" -> rsds_df

\* The value that gap filling is to give column col on date d.
FilledValue(col, d) ==
  LET df == SeriesOfCol(col)
      valid == ValidDates(df)
      earlier == {e \in valid : e <= d}
  IN IF earlier # {} THEN Converted(col, RowAt(df, Max(earlier)).value)
     ELSE IF valid # {} THEN Converted(col, RowAt(df, Min(valid)).value)
     ELSE 0

\* C4: no row of the table has a missing maxt, mint, rain or radn: a day keeps
\* the value it had, a missing value is that of the nearest earlier day that
\* has one, failing that of the nearest later day, and 0.0 when the whole
\* column has none.
C4_GapFilling ==
  TableBuilt =>
    \A i \in DOMAIN merged : \A col \in NumericCols :
      /\ merged[i][col] # NaN
      /\ merged[i][col] = FilledValue(col, merged[i].date)

\* A column with a value on both sides of a missing day, a column filled
\* backwards at the start of the table, and a column without any value.
C4_Witness ==
  /\ TableBuilt
  /\ Len(merged) = 3
  /\ ValidDates(tasmax_df) = {merged[1].date, merged[3].date}
  /\ merged[2].maxt = tasmax_df[1].value
  /\ \E col \in NumericCols :
       /\ ValidDates(SeriesOfCol(col)) # {}
       /\ merged[1].date < Min(ValidDates(SeriesOfCol(col)))
  /\ \E col \in NumericCols : ValidDates(SeriesOfCol(col)) = {}

AllVpBlank == \A i \in DOMAIN met_lines : met_lines[i].vp.blank
AllVpNumeric == \A i \in DOMAIN met_lines : ~met_lines[i].vp.blank

C6_CodeFollowsHurs ==
  met_pc = "done" =>
    \A i \in DOMAIN met_lines :
      met_lines[i].code = (IF HursSupplied THEN "222222" ELSE "      ")

\* C6 amended: the code field of every data row is "222222", whether or not
\* hurs was supplied.
C6_CodeAlways222222 ==
  met_pc = "done" =>
    /\ Len(met_lines) = Len(merged)
    /\ \A i \in DOMAIN met_lines : met_lines[i].code = "222222"

\* Records written without hurs.
C6_Witness ==
  /\ met_pc = "done"
  /\ ~HursSupplied
  /\ Len(met_lines) >= 1
  /\ met_lines[1].vp.blank
  /\ met_lines[1].code = "222222"

----------------------------------------------------------------------------
(* Properties of the extracted series *)

Returned == ext_pc = "done"

\* The rows of all fragments together.
RECURSIVE FragmentRows(_)
FragmentRows(k) == IF k = 0 THEN 0 ELSE Len(all_data[k]) + FragmentRows(k - 1)

\* C7: a returned series is strictly ascending by date, so that no date
\* appears twice, however many files contributed and however their dates
\* overlap.
C7_StrictlyAscending ==
  Returned =>
    \A i \in 1..(Len(combined_df) - 1) :
      combined_df[i].date < combined_df[i + 1].date

\* Several files contributed, some of their dates more than once.
C7_Witness ==
  /\ Returned
  /\ Len(all_data) >= 2
  /\ Len(combined_df) < FragmentRows(Len(all_data))

\* C8: the value a returned series holds for a date is the one of the first
\* file, in the sorted order of the file names, that holds the date.
C8_FirstFileWins ==
  Returned =>
    LET dates == Mat([k \in DOMAIN all_data |-> DatesOf(all_data[k])])
        pairs == Mat([k \in DOMAIN all_data |->
                   {<<all_data[k][i].date, all_data[k][i].value>> :
                      i \in DOMAIN all_data[k]}])
    IN \A i \in DOMAIN combined_df :
         LET d == combined_df[i].date
             g == Min({k \in DOMAIN all_data : d \in dates[k]})
         IN <<d, combined_df[i].value>> \in pairs[g]

\* The file has no usable time coordinate.
NoUsableAxis(f) ==
  f.time.kind \in {"none", "undecodable"} \/ f.time.len # f.n

\* The positions of the four-digit groups of a name, from the left and not
\* overlapping: four digits that a multiple of four digits precedes in their
\* run of digits.
GroupStarts(name) ==
  {p \in 1..(Len(name) - 3) :
     /\ \A j \in p..(p + 3) : name[j] \in Digits
     /\ Cardinality({q \in 1..(p - 1) :
                       \A j \in q..(p - 1) : name[j] \in Digits}) % 4 = 0}

GroupAt(name, p) ==
  ((DigitVal(name[p]) * 10 + DigitVal(name[p + 1])) * 10
     + DigitVal(name[p + 2])) * 10 + DigitVal(name[p + 3])

InRangeStarts(name) ==
  {p \in GroupStarts(name) : GroupAt(name, p) >= 2000 /\ GroupAt(name, p) <= 2100}

\* The date of the first value of a file named by year: 1 January of the
\* leftmost group in range, of 2035 without one.
NamedStart(name) ==
  IF InRangeStarts(name) = {} THEN DateOf(2035, 1)
  ELSE DateOf(GroupAt(name, Min(InRangeStarts(name))), 1)

\* The file holds one value per day of year y, dated by its time coordinate
\* or else by its name.
CoversYear(f, y) ==
  /\ f.n = DaysInYear(y)
  /\ IF NoUsableAxis(f) THEN NamedStart(f.name) = DateOf(y, 1)
     ELSE f.time.start = DateOf(y, 1)

\* Every file of the variable is read without failure.
AllRead == \A k \in DOMAIN nc_files : ~read_fails(nc_files[k], broken)

JustProcessed == ext_pc = "loop" /\ file_idx > 1
LastFile == nc_files[file_idx - 1]
LastFragment == all_data[Len(all_data)]

\* C10: the values of a file that is read and has no usable time coordinate
\* are dated by consecutive days from 1 January of the leftmost four-digit
\* group of the file name that lies in 2000..2100, and of 2035 when there is
\* none; 366 values of a leap year end on its 31 December.
C10_DatesFromFileName ==
  (JustProcessed /\ NoUsableAxis(LastFile) /\ LastFile.n > 0
     /\ ~read_fails(LastFile, broken)) =>
    /\ Len(LastFragment) = LastFile.n
    /\ \A i \in DOMAIN LastFragment :
         LastFragment[i].date = NamedStart(LastFile.name) + i - 1
    /\ \A y \in 2000..2100 :
         (isleap(y) /\ LastFile.n = 366 /\ NamedStart(LastFile.name) = DateOf(y, 1)) =>
           /\ YearOf(LastFragment[366].date) = y
           /\ DayOfYear(LastFragment[366].date) = 366
           /\ YearOf(LastFragment[366].date + 1) = y + 1

\* A file named by two groups, then the 366 values of a leap year.
C10_Witness ==
  /\ JustProcessed
  /\ AllRead
  /\ file_idx = 3
  /\ Len(all_data) = 2
  /\ NoUsableAxis(nc_files[1])
  /\ Cardinality(GroupStarts(nc_files[1].name)) >= 2
  /\ NoUsableAxis(nc_files[2])
  /\ nc_files[2].n = 366
  /\ isleap(YearOf(all_data[2][1].date))

\* The sample file has been opened and read.
Sampled ==
  /\ ext_pc \in {"loop", "done", "none"}
  /\ nc_files # <<>>
  /\ sample_opens(nc_files[1], broken)

\* Index idx is the lowest of those whose axis value is nearest the target.
LowestNearest(values, target, idx) ==
  /\ idx \in DOMAIN values
  /\ \A j \in DOMAIN values :
       /\ abs(values[idx] - target) <= abs(values[j] - target)
       /\ j < idx => abs(values[j] - target) > abs(values[idx] - target)

\* C11: on each axis by itself the grid locator picks the lowest index among
\* those whose axis value differs least from the target, whatever the order
\* and the spacing of the axis values.
C11_NearestPerAxis ==
  (Sampled /\ lat_values # <<>> /\ lon_values # <<>>) =>
    /\ LowestNearest(lat_values, target_lat, lat_idx)
    /\ LowestNearest(lon_values, target_lon, lon_idx)

\* A latitude axis in descending order on which two indices tie.
C11_Witness ==
  /\ Sampled
  /\ lat_idx # 0
  /\ lon_idx # 0
  /\ \E j \in DOMAIN lat_values :
       /\ j > lat_idx
       /\ lat_values[j] < lat_values[lat_idx]
       /\ abs(lat_values[j] - target_lat) = abs(lat_values[lat_idx] - target_lat)

\* The nearest grid point lies farther from the target than the tolerance.
FarFromTarget ==
  /\ lat_idx # 0
  /\ lon_idx # 0
  /\ \/ abs(lat_values[lat_idx] - target_lat) > tolerance
     \/ abs(lon_values[lon_idx] - target_lon) > tolerance

\* The grid point a value was read at.
CellOf(value) == <<(value \div 1000000) % 10, (value \div 100000) % 10>>

\* C12: a nearest grid point outside the tolerance is reported only: the
\* extraction goes on, returns None only when no file yields data, and
\* returns the values of the nearest grid point.
C12_ToleranceWarnsOnly ==
  (Sampled /\ FarFromTarget) =>
    /\ warned
    /\ ext_pc = "none" => (file_idx > Len(nc_files) /\ all_data = <<>>)
    /\ Returned =>
         /\ combined_df # <<>>
         /\ \A i \in DOMAIN combined_df :
              /\ LowestNearest(lat_values, target_lat, CellOf(combined_df[i].value)[1])
              /\ LowestNearest(lon_values, target_lon, CellOf(combined_df[i].value)[2])

\* A series is returned for a target far from the grid.
C12_Witness ==
  /\ Returned
  /\ FarFromTarget
  /\ Len(lat_values) >= 2
  /\ combined_df # <<>>

\* File discovery is over.
Discovered == ext_pc \in {"sample", "loop", "done", "none"}

Range(q) == {q[i] : i \in DOMAIN q}

\* The files of a list whose name ends in .nc, and those whose name holds
\* the characters pat before it.
NcFiles(files) ==
  {f \in Range(files) :
     \E k \in 1..Len(f.name) : SubSeq(f.name, k, Len(f.name)) = <<".", "n", "c">>}

NamedFiles(files, pat) ==
  {f \in NcFiles(files) :
     \E i \in 1..Len(f.name) : \E j \in i..(Len(f.name) - 3) :
       SubSeq(f.name, i, j) = pat}

Strategies == <<"direct", "var_subs", "rad_subs", "var_dir">>

\* The files a strategy can yield in the directory.
Yield(k) ==
  CASE k = 1 -> NamedFiles(layout.direct, variable)
    [] k = 2 -> UNION {NcFiles(layout.var_subs[i].files) :
                         i \in {j \in DOMAIN layout.var_subs : layout.var_subs[j].isdir}}
    [] k = 3 -> IF variable = <<"r", "s", "d", "s">>
                THEN UNION {NcFiles(layout.rad_subs[i].files) :
                              i \in {j \in DOMAIN layout.rad_subs : layout.rad_subs[j].isdir}}
                ELSE {}
    [] k = 4 -> IF layout.var_dir.exists /\ layout.var_dir.isdir
                THEN NcFiles(layout.var_dir.files) ELSE {}

Yielding == {k \in 1..4 : Yield(k) # {}}

\* C13: the strategies are consulted in the order direct files, subdirectory
\* '{variable}_*', subdirectory 'rad_*' (rsds only), subdirectory named as
\* the variable; one is consulted only when all before it yield no file,
\* the files used come from the first that yields any, and None is returned
\* when none does.
C13_DiscoveryOrder ==
  Discovered =>
    /\ \A i \in DOMAIN searched : \E k \in 1..4 :
         /\ searched[i] = Strategies[k]
         /\ \A e \in 1..(k - 1) : Yield(e) = {}
         /\ \A j \in 1..(i - 1) : \E e \in 1..(k - 1) : searched[j] = Strategies[e]
         /\ k = 3 => variable = <<"r", "s", "d", "s">>
    /\ Yielding # {} =>
         /\ nc_files # <<>>
         /\ Range(nc_files) \subseteq Yield(Min(Yielding))
         /\ \E i \in DOMAIN searched : searched[i] = Strategies[Min(Yielding)]
    /\ Yielding = {} => (nc_files = <<>> /\ ext_pc = "none")

\* The files of rsds are found by the last strategy after all the others.
C13_Witness ==
  /\ Discovered
  /\ variable = <<"r", "s", "d", "s">>
  /\ searched = Strategies
  /\ nc_files # <<>>
  /\ layout.direct # <<>>
  /\ layout.var_subs # <<>>
  /\ layout.rad_subs # <<>>

\* The extraction has returned.
Finished == ext_pc \in {"done", "none"}

\* The files found that can be read and hold values.
GoodFiles == {f \in Range(nc_files) : f.n > 0 /\ broken.file # f.val}

\* The file a value was read from.
FileOf(value) == (value \div 1000) % 100

\* One of the files found cannot be read.
OneFileFails == \E f \in Range(nc_files) : broken.file = f.val

\* The series is built from the files read successfully and from all of
\* them; None is returned only if there is none.
SeriesOfGoodFiles ==
  /\ GoodFiles # {} => Returned
  /\ GoodFiles = {} => ext_pc = "none"
  /\ Len(all_data) = Cardinality(GoodFiles)
  /\ \A f \in GoodFiles : \E k \in DOMAIN all_data : FileOf(all_data[k][1].value) = f.val
  /\ Returned => \A i \in DOMAIN combined_df :
                    \E f \in GoodFiles : FileOf(combined_df[i].value) = f.val

\* C14 as stated: whichever file fails to be read, the first one included,
\* the series of the other files is returned.
C14_AnyFileSkipped ==
  (Finished /\ OneFileFails) => SeriesOfGoodFiles

\* C14: when a file fails to be read and the first file in sorted order can
\* be opened, the file is skipped and the series of the files read
\* successfully is returned, None only if no file yields data.
C14_FileSkippedAfterSample ==
  (Finished /\ OneFileFails /\ ~(broken.kind = "open" /\ broken.file = nc_files[1].val)) =>
    SeriesOfGoodFiles

\* A series is returned although the values of the first file cannot be read.
C14_Witness ==
  /\ Returned
  /\ Len(nc_files) = 2
  /\ broken.kind = "data"
  /\ broken.file = nc_files[1].val
  /\ combined_df # <<>>
  /\ Len(all_data) = 1

----------------------------------------------------------------------------
(* Properties of the run *)

RunEnded == run_pc = "done"

\* The variable was asked for and its extraction returned a series.
WasExtracted(v) ==
  /\ data_dir_exists
  /\ \E i \in DOMAIN variables : variables[i] = v
  /\ extract_returns[v] = "data"

AllRequiredExtracted ==
  WasExtracted("tasmax") /\ WasExtracted("tasmin") /\ WasExtracted("pr") /\ WasExtracted("rsds")

\* C15: process_coordinate writes the MET file and its CSV mirror exactly
\* when tasmax, tasmin, pr and rsds were all extracted; otherwise it returns
\* None, raises nothing and writes no MET file; hurs has no part in it.
C15_MetIffRequired ==
  (RunEnded /\ result # "raised") =>
    /\ AllRequiredExtracted <=> {"met", "csv"} \subseteq written
    /\ AllRequiredExtracted <=> result = "summary"
    /\ ~AllRequiredExtracted => (result = "None" /\ written \cap {"met", "csv"} = {})

\* The MET file is written although hurs was not extracted.
C15_Witness ==
  /\ RunEnded
  /\ "met" \in written
  /\ ~WasExtracted("hurs")
  /\ result = "summary"

OutOfRange ==
  latitude < -90 \/ latitude > 90 \/ longitude < -180 \/ longitude > 180

\* C16: with a latitude outside [-90, 90] or a longitude outside [-180, 180]
\* every entry to the pipeline ends by raising, and no directory is created,
\* no source file opened and no file written before.
C16_InvalidCoordinateRaisesFirst ==
  (entry # "none" /\ OutOfRange) =>
    /\ ~output_dir_created
    /\ opened = {}
    /\ written = {}
    /\ RunEnded => result = "raised"

----------------------------------------------------------------------------
(* Properties of the written MET records *)

\* The columns of the fields of a record.
Columns ==
  [year |-> <<1, 4>>, day |-> <<6, 9>>, radn |-> <<11, 16>>, maxt |-> <<18, 23>>,
   mint |-> <<25, 30>>, rain |-> <<32, 37>>, evap |-> <<39, 44>>,
   vp |-> <<46, 51>>, code |-> <<53, 58>>]

ValueCols == {"radn", "maxt", "mint", "rain", "evap", "vp"}

\* The characters of txt in the columns a..b.
Cut(txt, a, b) ==
  IF a > Len(txt) THEN <<>> ELSE SubSeq(txt, a, IF b < Len(txt) THEN b ELSE Len(txt))

strip(s) ==
  LET ns == {i \in DOMAIN s : s[i] # " "}
  IN IF ns = {} THEN <<>> ELSE SubSeq(s, Min(ns), Max(ns))

RECURSIVE NatVal(_)
NatVal(s) ==
  IF s = <<>> THEN 0
  ELSE 10 * NatVal(SubSeq(s, 1, Len(s) - 1)) + DigitVal(s[Len(s)])

\* The reading of a field: blank, a number in tenths, or no number.
ParseField(fld) ==
  LET s    == strip(fld)
      neg  == s # <<>> /\ s[1] = "-"
      body == IF neg THEN SubSeq(s, 2, Len(s)) ELSE s
      dots == {i \in DOMAIN body : body[i] = "."}
      p    == IF dots = {} THEN Len(body) + 1 ELSE Min(dots)
      ip   == SubSeq(body, 1, p - 1)
      fp   == SubSeq(body, p + 1, Len(body))
      ok   == /\ Cardinality(dots) <= 1
              /\ Len(ip) + Len(fp) >= 1
              /\ Len(fp) <= 1
              /\ \A i \in DOMAIN body : i \in dots \/ body[i] \in Digits
      mag  == 10 * NatVal(ip) + NatVal(fp)
  IN IF s = <<>> THEN [kind |-> "blank", tenths |-> 0]
     ELSE IF ok THEN [kind |-> "number", tenths |-> IF neg THEN 0 - mag ELSE mag]
     ELSE [kind |-> "other", tenths |-> 0]

Parsed(txt, col) == ParseField(Cut(txt, Columns[col][1], Columns[col][2]))

Absent(v) == v = EmptyStr \/ v = NaN

\* t tenths is v (in units of 10^-4) rounded to one decimal place.
NearestTenth(t, v) == abs(1000 * t - v) <= 500

RoundTrips(i) ==
  LET txt == met_lines[i].text
      row == merged[i]
  IN /\ Parsed(txt, "year") = [kind |-> "number", tenths |-> 10 * row.year]
     /\ Parsed(txt, "day") = [kind |-> "number", tenths |-> 10 * row.day]
     /\ \A col \in ValueCols :
          IF Absent(row[col]) THEN Parsed(txt, col).kind = "blank"
          ELSE /\ Parsed(txt, col).kind = "number"
               /\ NearestTenth(Parsed(txt, col).tenths, row[col])

\* v is written in six characters: -999.95 < v < 9999.95.
FitsColumn(v) == -9999500 < v /\ v < 99999500

RowFits(i) == \A col \in ValueCols : Absent(merged[i][col]) \/ FitsColumn(merged[i][col])

Separators == {5, 10, 17, 24, 31, 38, 45, 52}

FixedLayout(txt) ==
  /\ Len(txt) = 58
  /\ \A c \in Separators : txt[c] = " "
  /\ \A col \in {"year", "day"} : Parsed(txt, col).kind = "number"
  /\ \A col \in ValueCols : Parsed(txt, col).kind \in {"blank", "number"}
  /\ Cut(txt, 53, 58) \in {CodeText("222222"), Spaces(6)}

\* C18 as stated: every written record has the fixed layout of 58
\* characters, year and day of year in 4 characters, the seven other fields
\* in 6 characters each, single spaces between them, whatever the values.
C18_FixedLayout ==
  met_pc = "done" => \A i \in DOMAIN met_lines : FixedLayout(met_lines[i].text)

----------------------------------------------------------------------------
(* The radiation column *)

\* r W/m2 in MJ/m2, in units of 10^-4: r * 0.0864.
InMj(r) == r * 864

\* The rsds value that gap filling propagates to date d: the latest value
\* before d, else the earliest after it; NaN when rsds holds no value.
PropagatedRsds(d) ==
  LET V == ValidDates(rsds_df)
      before == {e \in V : e <= d}
  IN IF V = {} THEN NaN
     ELSE RowAt(rsds_df, IF before # {} THEN Max(before) ELSE Min(V)).value

\* C20: on every date that holds an rsds value r the radn of the merged
\* table is r * 0.0864 (17.28 for 200), and on every other date it is the
\* propagated rsds value times 0.0864: the factor is applied once.
C20_RadnConversion ==
  /\ InMj(200) = 172800
  /\ TableBuilt =>
       \A i \in DOMAIN merged :
         LET r == PropagatedRsds(merged[i].date)
         IN /\ merged[i].date \in ValidDates(rsds_df)
                 => merged[i].radn = InMj(RowAt(rsds_df, merged[i].date).value)
            /\ r # NaN => merged[i].radn = InMj(r)
            /\ r = NaN => merged[i].radn = 0

\* A table with a date that holds an rsds value and dates before and after
\* it that take the converted value by gap filling.
C20_Witness ==
  /\ TableBuilt
  /\ Cardinality(ValidDates(rsds_df)) = 1
  /\ \E i \in DOMAIN merged :
       /\ merged[i].date \in ValidDates(rsds_df)
       /\ 1 < i /\ i < Len(merged)
       /\ merged[i].radn = InMj(rsds_df[1].value)
       /\ merged[i - 1].radn = merged[i].radn
       /\ merged[i + 1].radn = merged[i].radn
       /\ merged[i].radn > 170000

----------------------------------------------------------------------------
(* Missing temperatures and rainfall in the written records *)

Written == met_pc \in {"done", "convert_done"}

RequiredCols == {"maxt", "mint", "rain"}

\* C19 as stated: in a record written by any MET writer, a maxt, mint or
\* rain that is missing in the joined table reads 0.0, never another token.
C19_MissingWrittenAsZero ==
  Written =>
    \A i \in DOMAIN merged : \A col \in RequiredCols :
      merged[i][col] = NaN =>
        Parsed(met_lines[i].text, col) = [kind |-> "number", tenths |-> 0]

----------------------------------------------------------------------------
(* calculate_vapor_pressure, lines 1277-1335, applied by itself.  Numbers   *)
(* are fixed-point, in units of 10^-4; relative humidity is in whole        *)
(* percent.  Every operation truncates as it is carried out.               *)

FP == 10000
ExpTerms == 24

\* np.exp(x): the series 1 + x + x^2/2! + ..., term k computed from term k-1.
RECURSIVE exp_from(_, _, _)
exp_from(x, k, term) ==
  IF k > ExpTerms THEN 0
  ELSE term + exp_from(x, k + 1, (term * x) \div (k * FP))

exp(x) == exp_from(x, 1, FP)

\* Line 1292: 0.611 * np.exp(17.27 * temperature / (temperature + 237.3))
calculate_saturation_vapor_pressure(temperature) ==
  (611 * exp((1727 * temperature) \div ((temperature + 2373000) \div 100))) \div 1000

\* Variant: the maximum temperature stands for the mean.
tmean_MaxOnly(value_max, value_min) ==
  IF value_max = NaN \/ value_min = NaN THEN NaN ELSE value_max

\* Line 1314: (value_max + value_min) / 2.0
tmean(value_max, value_min) ==
  IF value_max = NaN \/ value_min = NaN THEN NaN ELSE (value_max + value_min) \div 2

\* Lines 1313-1314: temp_df, the inner join of tasmax and tasmin on date
\* (dates are unique in both frames).
temp_df(tmax, tmin) ==
  LET keep == SelectSeq(tmax, LAMBDA r : r.date \in DatesOf(tmin))
  IN Mat([k \in 1..Len(keep) |->
        [date |-> keep[k].date,
         tmean |-> tmean(keep[k].value, RowAt(tmin, keep[k].date).value)]])

\* Lines 1322-1329: es_kpa, ea_kpa and vp of one row.
vp_of(value, t) ==
  IF value = NaN \/ t = NaN THEN NaN
  ELSE LET es_kpa == calculate_saturation_vapor_pressure(t)
           ea_kpa == (((value * FP) \div 100) * es_kpa) \div FP
       IN 10 * ea_kpa

\* Lines 1313-1335: the returned frame of date and value.
calculate_vapor_pressure_frame(hurs, tmax, tmin) ==
  LET t == temp_df(tmax, tmin)
      keep == SelectSeq(hurs, LAMBDA r : r.date \in DatesOf(t))
  IN Mat([k \in 1..Len(keep) |->
        [date |-> keep[k].date,
         value |-> vp_of(keep[k].value, RowAt(t, keep[k].date).tmean)]])

\* Series of at most MaxLen rows on ShortDates with values of vals.
ValueSeries(vals) ==
  UNION {{Mat([k \in 1..Cardinality(S) |->
                 [date |-> SortedSeq(S)[k], value |-> v[SortedSeq(S)[k]]]]) :
             v \in [S -> vals]} :
           S \in {T \in SUBSET ShortDates : Cardinality(T) <= MaxLen}}

VpInit ==
  /\ call_pc = "vp_call"
  /\ call_args \in [hurs_df : ValueSeries({55, 100}),
                     tasmax_df : ValueSeries({301234, NaN}),
                     tasmin_df : ValueSeries({120000, -51234})]
  /\ call_result = <<>>
  /\ MetIdle
  /\ ExtIdle
  /\ RunIdle

CalculateVaporPressure ==
  /\ call_pc = "vp_call"
  /\ call_result' = calculate_vapor_pressure_frame(call_args.hurs_df,
                                                   call_args.tasmax_df,
                                                   call_args.tasmin_df)
  /\ call_pc' = "vp_done"
  /\ UNCHANGED call_args
  /\ UNCHANGED <<met_vars, ext_vars, run_vars>>

VpNext == CalculateVaporPressure

SpecVp == VpInit /\ [][VpNext]_vars

----------------------------------------------------------------------------
(* Properties of calculate_vapor_pressure *)

\* e_s(T) = 0.611 * exp(17.27 * T / (T + 237.3))
SiloEs(T) == (611 * exp((1727 * T) \div ((T + 2373000) \div 100))) \div 1000

\* 10 * (hurs/100) * e_s((tasmax + tasmin)/2)
SiloVp(h, tx, tn) == 10 * ((((h * FP) \div 100) * SiloEs((tx + tn) \div 2)) \div FP)

CommonDates ==
  DatesOf(call_args.hurs_df) \cap DatesOf(call_args.tasmax_df)
    \cap DatesOf(call_args.tasmin_df)

\* C21: the returned frame holds one row for every date present in all three
\* inputs and no other; its value is 10 * (hurs/100) * e_s((tasmax+tasmin)/2)
\* when the three values are numbers, and 10 * e_s(T) when hurs is 100.
C21_SiloVaporPressure ==
  call_pc = "vp_done" =>
    /\ DatesOf(call_result) = CommonDates
    /\ Len(call_result) = Cardinality(CommonDates)
    /\ \A i \in DOMAIN call_result :
         LET d == call_result[i].date
             h == RowAt(call_args.hurs_df, d).value
             tx == RowAt(call_args.tasmax_df, d).value
             tn == RowAt(call_args.tasmin_df, d).value
         IN IF tx = NaN \/ tn = NaN THEN call_result[i].value = NaN
            ELSE /\ call_result[i].value = SiloVp(h, tx, tn)
                 /\ h = 100 => call_result[i].value = 10 * SiloEs((tx + tn) \div 2)

\* A date in all three inputs and dates in only some of them; humidity is
\* 100 at a mean temperature of 21.0617 degrees, where 10 * e_s lies between
\* 24.9 and 25.0.
C21_Witness ==
  /\ call_pc = "vp_done"
  /\ Len(call_result) = 1
  /\ Len(call_args.tasmax_df) = 2
  /\ Len(call_args.hurs_df) = 2
  /\ RowAt(call_args.hurs_df, call_result[1].date).value = 100
  /\ RowAt(call_args.tasmax_df, call_result[1].date).value = 301234
  /\ RowAt(call_args.tasmin_df, call_result[1].date).value = 120000
  /\ call_result[1].value > 249000
  /\ call_result[1].value < 250000

----------------------------------------------------------------------------
(* calculate_tav_amp, lines 1242-1275 (the same function stands at lines    *)
(* 22-55 of convert_to_met_format.py), applied by itself to a frame of      *)
(* date, maxt and mint.                                                     *)

\* .month of a date
MonthOf(d) ==
  LET feb == IF isleap(YearOf(d)) THEN 29 ELSE 28
      ends == <<31, 31 + feb, 62 + feb, 92 + feb, 123 + feb, 153 + feb,
                184 + feb, 215 + feb, 245 + feb, 276 + feb, 306 + feb, 337 + feb>>
  IN Min({m \in 1..12 : DayOfYear(d) <= ends[m]})

RECURSIVE SeqSum(_)
SeqSum(q) == IF q = <<>> THEN 0 ELSE q[1] + SeqSum(Tail(q))

\* Series.mean(): the mean of the entries that are numbers, NaN without one.
mean(q) ==
  LET v == SelectSeq(q, LAMBDA x : x # NaN)
  IN IF v = <<>> THEN NaN ELSE SeqSum(v) \div Len(v)

\* Line 1259: df['tmean'] = (df['maxt'] + df['mint']) / 2.0
tmean_col(df) ==
  Mat([k \in 1..Len(df) |->
        IF df[k].maxt = NaN \/ df[k].mint = NaN THEN NaN
        ELSE (df[k].maxt + df[k].mint) \div 2])

\* Variant: the days of all years of a month are averaged together.
month_means_Pooled(df, month) ==
  LET t == tmean_col(df)
      rows == SelectSeq(Mat([k \in 1..Len(df) |-> k]),
                        LAMBDA k : MonthOf(df[k].date) = month)
      m == mean(Mat([j \in 1..Len(rows) |-> t[rows[j]]]))
  IN IF rows = <<>> THEN <<>> ELSE <<m>>

\* Lines 1264 and 1271-1272: the entries of monthly_means, the means over
\* the groups of (year, month), for one month, by year.
month_means(df, month) ==
  LET t == tmean_col(df)
      years == SortedSeq({YearOf(df[k].date) :
                            k \in {j \in DOMAIN df : MonthOf(df[j].date) = month}})
  IN Mat([y \in 1..Len(years) |->
        LET rows == SelectSeq(Mat([k \in 1..Len(df) |-> k]),
                              LAMBDA k : /\ MonthOf(df[k].date) = month
                                         /\ YearOf(df[k].date) = years[y])
        IN mean(Mat([j \in 1..Len(rows) |-> t[rows[j]]]))])

\* Lines 1267-1275: the returned pair.
calculate_tav_amp(df) ==
  LET tav == mean(tmean_col(df))
      jan_means == mean(month_means(df, 1))
      jul_means == mean(month_means(df, 7))
  IN [tav |-> tav,
      amp |-> IF jan_means = NaN \/ jul_means = NaN THEN NaN
              ELSE (jan_means - jul_means) \div 2]

MaxDays == 4      \* rows of the frame given to calculate_tav_amp

\* Days of January and July of two years and a day of March.
TavDates ==
  {DateOf(2023, 1), DateOf(2023, 2), DateOf(2024, 1), DateOf(2023, 182),
   DateOf(2024, 183), DateOf(2023, 60)}

\* Daily temperatures with the means 28.0, 12.0 and 20.5, and a day without
\* maximum.
TavValues ==
  {[maxt |-> 320000, mint |-> 240000], [maxt |-> 140000, mint |-> 100000],
   [maxt |-> 250000, mint |-> 160000], [maxt |-> NaN, mint |-> 100000]}

TavFrames ==
  UNION {{Mat([k \in 1..Cardinality(S) |->
                 [date |-> SortedSeq(S)[k], maxt |-> v[SortedSeq(S)[k]].maxt,
                  mint |-> v[SortedSeq(S)[k]].mint]]) :
             v \in [S -> TavValues]} :
           S \in {T \in SUBSET TavDates : Cardinality(T) <= MaxDays}}

TavInit ==
  /\ call_pc = "tav_call"
  /\ call_args \in [df : TavFrames]
  /\ call_result = <<>>
  /\ MetIdle
  /\ ExtIdle
  /\ RunIdle

CalculateTavAmp ==
  /\ call_pc = "tav_call"
  /\ call_result' = calculate_tav_amp(call_args.df)
  /\ call_pc' = "tav_done"
  /\ UNCHANGED call_args
  /\ UNCHANGED <<met_vars, ext_vars, run_vars>>

TavNext == CalculateTavAmp

SpecTavAmp == TavInit /\ [][TavNext]_vars

----------------------------------------------------------------------------
(* Properties of calculate_tav_amp *)

\* The daily mean temperatures of the rows of month m in year y.
DailyMeans(y, m) ==
  LET df == call_args.df
      rows == SelectSeq(Mat([k \in 1..Len(df) |-> k]),
                LAMBDA k : /\ MonthOf(df[k].date) = m
                           /\ YearOf(df[k].date) = y
                           /\ df[k].maxt # NaN
                           /\ df[k].mint # NaN)
  IN Mat([j \in 1..Len(rows) |-> (df[rows[j]].maxt + df[rows[j]].mint) \div 2])

Average(q) == SeqSum(q) \div Len(q)

\* The mean over the years of the monthly mean of month m; NaN without a
\* daily mean in that month.
MeanOverYears(m) ==
  LET ys == SortedSeq({y \in 2023..2024 : DailyMeans(y, m) # <<>>})
  IN IF ys = <<>> THEN NaN
     ELSE Average(Mat([j \in 1..Len(ys) |-> Average(DailyMeans(ys[j], m))]))

\* C22: amp is half the difference of the mean over the years of the
\* January monthly means and that of the July monthly means, computed from
\* the days of January and July alone and with its sign; it is NaN when one
\* of the two months has no daily mean.
C22_AmpFromJanuaryAndJuly ==
  call_pc = "tav_done" =>
    call_result.amp =
      (IF MeanOverYears(1) = NaN \/ MeanOverYears(7) = NaN THEN NaN
       ELSE (MeanOverYears(1) - MeanOverYears(7)) \div 2)

\* January means 28.0 and July means 12.0 give 8.0, with two days in one
\* January and a day of March in the frame.
C22_Witness ==
  /\ call_pc = "tav_done"
  /\ MeanOverYears(1) = 280000
  /\ MeanOverYears(7) = 120000
  /\ call_result.amp = 80000
  /\ \E k \in DOMAIN call_args.df : MonthOf(call_args.df[k].date) = 3
  /\ call_result.tav # 200000
  /\ call_result.tav # NaN

----------------------------------------------------------------------------
(* Open source files *)

\* The loop is about to open its next file.
AtLoopHead == ext_pc = "loop" /\ file_idx <= Len(nc_files)

\* C23: at most one source file is open at any time: whenever the loop is
\* about to open a file, and when the extraction ends, every file opened
\* before has been closed, also a file whose processing raised an error.
C23_OneFileOpen ==
  (AtLoopHead \/ Finished) => open_files = {}

----------------------------------------------------------------------------
(* The name of the data field, lines 1076-1097, applied by itself to the    *)
(* variable identifier and the names of the data fields of the sample file, *)
(* in the order of the file.                                                *)

\* str.lower() of a character and of a name.
lower_char(c) ==
  CASE c = "P" -> "p" [] c = "R" -> "r" [] c = "A" -> "a" [] c = "D" -> "d"
    [] OTHER -> c

upper_char(c) ==
  CASE c = "p" -> "P" [] c = "r" -> "R" [] c = "a" -> "A" [] c = "d" -> "D"
    [] c = "s" -> "S" [] OTHER -> c

lower(name) == Mat([k \in 1..Len(name) |-> lower_char(name[k])])
upper(name) == Mat([k \in 1..Len(name) |-> upper_char(name[k])])

\* a in b, for strings
in_str(a, b) ==
  \E k \in 0..(Len(b) - Len(a)) : SubSeq(b, k + 1, k + Len(a)) = a

\* The first entry of names that satisfies test; <<>> stands for None.
first_match(names, test(_)) ==
  LET hits == {k \in DOMAIN names : test(names[k])}
  IN IF hits = {} THEN <<>> ELSE names[Min(hits)]

RAD == <<"r", "a", "d">>
UNDERSCORE_DAY == <<"_", "d", "a", "y">>

\* Lines 1086-1094
possible_names(var) ==
  <<var, upper(var), var \o UNDERSCORE_DAY>>
    \o (IF var = RSDS THEN <<RAD, upper(RAD), RAD \o UNDERSCORE_DAY>> ELSE <<>>)

\* Lines 1076-1097: var_name.
find_var_name(var, data_vars) ==
  LET by_substring ==
        first_match(data_vars,
                    LAMBDA v : in_str(var, lower(v)) \/ in_str(lower(v), lower(var)))
      by_rad ==
        IF by_substring = <<>> /\ var = RSDS
        THEN first_match(data_vars,
                         LAMBDA v : in_str(RAD, lower(v)) /\ ~in_str(RSDS, lower(v)))
        ELSE by_substring
  IN IF by_rad # <<>> THEN by_rad
     ELSE first_match(possible_names(var), LAMBDA n : n \in Range(data_vars))

MaxVars == 2      \* data fields of the sample file

\* Names of data fields: pr, PR, prc, p, rad, rsds, rsdscs, tas.
FieldNames ==
  {PR, upper(PR), PR \o <<"c">>, <<"p">>, RAD, RSDS, RSDS \o <<"c", "s">>,
   <<"t", "a", "s">>}

\* The lists of at most MaxVars different names.
FieldLists ==
  UNION {{q \in [1..n -> FieldNames] : \A a, b \in 1..n : a # b => q[a] # q[b]} :
           n \in 0..MaxVars}

VarNameInit ==
  /\ call_pc = "var_name_call"
  /\ call_args \in [variable : {PR, RSDS}, data_vars : FieldLists]
  /\ call_result = <<>>
  /\ MetIdle
  /\ ExtIdle
  /\ RunIdle

FindVarName ==
  /\ call_pc = "var_name_call"
  /\ call_result' = find_var_name(call_args.variable, call_args.data_vars)
  /\ call_pc' = "var_name_done"
  /\ UNCHANGED call_args
  /\ UNCHANGED <<met_vars, ext_vars, run_vars>>

VarNameNext == FindVarName

SpecVarName == VarNameInit /\ [][VarNameNext]_vars

----------------------------------------------------------------------------
(* Properties of the name of the data field *)

\* The name contains the identifier, or the identifier the name, without
\* regard to case.
SharesSubstring(v, var) ==
  in_str(lower(var), lower(v)) \/ in_str(lower(v), lower(var))

\* C24: the data field is the one named exactly as the variable if there is
\* one; otherwise one that matches by substring without regard to case if
\* there is one; otherwise one of the alternates.
C24_ExactNameFirst ==
  call_pc = "var_name_done" =>
    LET var == call_args.variable
        names == Range(call_args.data_vars)
    IN IF var \in names THEN call_result = var
       ELSE IF \E v \in names : SharesSubstring(v, var)
            THEN call_result \in names /\ SharesSubstring(call_result, var)
            ELSE call_result = <<>> \/ call_result \in Range(possible_names(var))

----------------------------------------------------------------------------
(* The day count of create_met_file *)

DayCountDiffers == Len(merged) # ExpectedDays({merged[i].year : i \in DOMAIN merged})

\* C25: the day count never aborts: when create_met_file has returned, with
\* a matching count or not, every row has been written to the MET file and
\* to the CSV mirror and the row count is returned; a differing count is
\* reported.
C25_DayCountNeverAborts ==
  met_pc = "done" =>
    /\ Len(met_lines) = Len(merged)
    /\ Len(csv_lines) = Len(merged)
    /\ num_rows = Len(merged)
    /\ day_check = (IF DayCountDiffers THEN "mismatch" ELSE "ok")

\* A table that starts in the middle of a year: its day count differs.
C25_Witness ==
  /\ met_pc = "done"
  /\ DayCountDiffers
  /\ day_check = "mismatch"
  /\ Len(merged) >= 3
  /\ Len(csv_lines) = Len(merged)
  /\ num_rows = Len(merged)

----------------------------------------------------------------------------
(* The number of dates of a file *)

\* C26: for every source file, whichever method dates it, the dates number
\* as many as the values before the trim and extend step, which therefore
\* changes nothing, and the fragment of a file that was read holds one row
\* per value.
C26_DatesMatchValues ==
  /\ \A k \in DOMAIN nc_files :
       /\ Len(TimeValues(nc_files[k])) = nc_files[k].n
       /\ FitLength(TimeValues(nc_files[k]), nc_files[k].n) = TimeValues(nc_files[k])
  /\ (JustProcessed /\ LastFile.n > 0 /\ ~read_fails(LastFile, broken)) =>
       /\ Len(LastFragment) = LastFile.n
       /\ \A i \in DOMAIN LastFragment :
            LastFragment[i].date = TimeValues(LastFile)[i]

\* A file whose time coordinate is longer than its values, dated from its
\* name, after a file dated by its time coordinate.
C26_Witness ==
  /\ JustProcessed
  /\ file_idx = 3
  /\ Len(all_data) = 2
  /\ HasTimeValues(nc_files[1])
  /\ nc_files[2].time.kind \in {"decoded", "manual"}
  /\ nc_files[2].time.len > nc_files[2].n
  /\ Len(LastFragment) = nc_files[2].n

----------------------------------------------------------------------------
(* The series create_met_file is given *)

\* C27: create_met_file does not change the series it is given: no step of
\* it alters the columns or the values of the caller's tasmax, tasmin, pr,
\* rsds and hurs tables.
C27_SeriesUnchanged ==
  [][UNCHANGED <<tasmax_df, tasmin_df, pr_df, rsds_df, hurs_df>>]_vars

----------------------------------------------------------------------------
(* convert_to_met_format.main: the loop over the scenarios *)

SCENARIOS == <<"SSP585", "SSP245">>

\* tasmax_file, tasmin_file and pr_file of a scenario, in the order they are
\* checked and loaded; a path is the pair of its variable and its scenario.
main_files(scenario) ==
  <<<<"tasmax", scenario>>, <<"tasmin", scenario>>, <<"pr", scenario>>>>

AllPaths == {main_files(SCENARIOS[k])[j] : k \in DOMAIN SCENARIOS, j \in 1..3}

\* The paths of a list that os.path.exists does not find.
not_found(paths, exists) == {paths[j] : j \in {n \in DOMAIN paths : ~exists[paths[n]]}}

\* The pd.read_csv calls of lines 229-231: each path is read in turn and the
\* first one that does not exist raises FileNotFoundError.
RECURSIVE read_csv_calls(_, _)
read_csv_calls(paths, exists) ==
  IF paths = <<>> THEN <<>>
  ELSE IF ~exists[Head(paths)] THEN <<Head(paths)>>
  ELSE <<Head(paths)>> \o read_csv_calls(Tail(paths), exists)

\* main() is entered with any of the six input files present or absent.
MainInit ==
  /\ call_pc = "main_check"
  /\ call_args \in [exists : [AllPaths -> BOOLEAN]]
  /\ call_result = [scenario_idx |-> 1, errors |-> {}, read_csv |-> <<>>,
                    converted |-> <<>>]
  /\ MetIdle
  /\ ExtIdle
  /\ RunIdle

\* Lines 222-225: an error is printed for each path that does not exist; the
\* continue belongs to the loop over the paths.
MainCheckFiles ==
  /\ call_pc = "main_check"
  /\ LET scenario == SCENARIOS[call_result.scenario_idx] IN
       call_result' = [call_result EXCEPT
         !.errors = @ \cup not_found(main_files(scenario), call_args.exists)]
  /\ call_pc' = "main_load"
  /\ UNCHANGED call_args
  /\ UNCHANGED <<met_vars, ext_vars, run_vars>>

\* Lines 228-231: the three files are loaded; a missing one raises out of
\* main.
MainLoad ==
  /\ call_pc = "main_load"
  /\ LET scenario == SCENARIOS[call_result.scenario_idx]
         calls == read_csv_calls(main_files(scenario), call_args.exists) IN
       /\ call_result' = [call_result EXCEPT !.read_csv = @ \o calls]
       /\ call_pc' = IF not_found(calls, call_args.exists) # {} THEN "main_raised"
                     ELSE "main_create"
  /\ UNCHANGED call_args
  /\ UNCHANGED <<met_vars, ext_vars, run_vars>>

\* Lines 237-246: the MET file of the scenario is created and the loop moves
\* to the next scenario; after the last one main returns.
MainCreateMetFile ==
  /\ call_pc = "main_create"
  /\ call_result' = [call_result EXCEPT
       !.converted = Append(@, SCENARIOS[call_result.scenario_idx]),
       !.scenario_idx = @ + 1]
  /\ call_pc' = IF call_result.scenario_idx = Len(SCENARIOS) THEN "main_done"
                ELSE "main_check"
  /\ UNCHANGED call_args
  /\ UNCHANGED <<met_vars, ext_vars, run_vars>>

MainNext == MainCheckFiles \/ MainLoad \/ MainCreateMetFile

SpecMain == MainInit /\ [][MainNext]_vars

----------------------------------------------------------------------------
(* A scenario with a missing input file *)

\* The scenarios main has dealt with or is dealing with.
Entered == {SCENARIOS[k] : k \in {n \in DOMAIN SCENARIOS : n <= call_result.scenario_idx}}

Complete(scenario) == not_found(main_files(scenario), call_args.exists) = {}

\* C28: when an input file of a scenario does not exist, main prints an
\* error and skips the scenario without a call of read_csv on its files, it
\* goes on to the remaining scenarios, and it does not raise.
C28_MissingInputSkipsScenario ==
  call_pc \in {"main_check", "main_load", "main_create", "main_done", "main_raised"} =>
    /\ call_pc # "main_raised"
    /\ \A scenario \in Entered :
         ~Complete(scenario) =>
           \A j \in DOMAIN call_result.read_csv : call_result.read_csv[j][2] # scenario
    /\ call_pc = "main_done" =>
         Range(call_result.converted) = {SCENARIOS[k] : k \in {n \in DOMAIN SCENARIOS : Complete(SCENARIOS[n])}}

----------------------------------------------------------------------------
(* filter_grid_points.filter_points_in_polygon *)

\* Point(row['lon'], row['lat']): x is the longitude, y the latitude.
Point(row) == [x |-> row.lon, y |-> row.lat]

\* The edges of a ring of vertices, the last vertex joined to the first.
edges(ring) ==
  {<<ring[k], ring[(k % Len(ring)) + 1]>> : k \in DOMAIN ring}

cross(a, b, p) == (b.x - a.x) * (p.y - a.y) - (b.y - a.y) * (p.x - a.x)

\* The point lies on the segment from a to b.
on_segment(a, b, p) ==
  /\ cross(a, b, p) = 0
  /\ Min({a.x, b.x}) <= p.x /\ p.x <= Max({a.x, b.x})
  /\ Min({a.y, b.y}) <= p.y /\ p.y <= Max({a.y, b.y})

\* The edge crosses the ray that leaves the point towards greater x.
crosses_ray(a, b, p) ==
  /\ (a.y > p.y) # (b.y > p.y)
  /\ IF b.y > a.y THEN (p.x - a.x) * (b.y - a.y) < (p.y - a.y) * (b.x - a.x)
     ELSE (p.x - a.x) * (b.y - a.y) > (p.y - a.y) * (b.x - a.x)

on_boundary(ring, p) == \E e \in edges(ring) : on_segment(e[1], e[2], p)

enclosed(ring, p) ==
  Cardinality({e \in edges(ring) : crosses_ray(e[1], e[2], p)}) % 2 = 1

\* Variant: the points of the boundary count as contained (covers).
contains_Covers(polygon, point) ==
  \E k \in DOMAIN polygon :
    on_boundary(polygon[k], point) \/ enclosed(polygon[k], point)

\* polygon.contains(point) of shapely: the point is in the interior of the
\* geometry, a Polygon or a MultiPolygon given as the list of its rings.
contains(polygon, point) ==
  \E k \in DOMAIN polygon :
    ~on_boundary(polygon[k], point) /\ enclosed(polygon[k], point)

\* df_filtered[inside_mask]: a list of booleans selects the rows; an empty
\* list is taken for a list of column labels and selects no column.
mask_rows(df, inside_mask) ==
  IF inside_mask = <<>> THEN [columns |-> <<>>, rows |-> df.rows]
  ELSE [columns |-> df.columns,
        rows |-> Mat(SelectSeq(df.rows, LAMBDA row : inside_mask[row.index + 1]))]

\* Lines 106-123.
filter_points_in_polygon(df, polygon) ==
  LET df_filtered == df
      points == [k \in DOMAIN df.rows |-> Point(df.rows[k])]
      inside_mask == Mat([k \in DOMAIN points |-> contains(polygon, points[k])])
  IN mask_rows(df_filtered, inside_mask)

\* Number of rows of the grid table.
MaxPoints == 3

\* Farm geometries, longitude first: a rectangle, a triangle, and two
\* separate squares (a MultiPolygon).
FarmPolygons ==
  { <<<<[x |-> 0, y |-> 0], [x |-> 6, y |-> 0], [x |-> 6, y |-> 2], [x |-> 0, y |-> 2]>>>>,
    <<<<[x |-> 0, y |-> 0], [x |-> 4, y |-> 0], [x |-> 0, y |-> 4]>>>>,
    <<<<[x |-> 0, y |-> 0], [x |-> 2, y |-> 0], [x |-> 2, y |-> 2], [x |-> 0, y |-> 2]>>,
      <<[x |-> 3, y |-> 3], [x |-> 5, y |-> 3], [x |-> 5, y |-> 5], [x |-> 3, y |-> 5]>>>> }

\* Grid points (lon, lat): inside, on an edge, on a vertex and outside of
\* the geometries.
GridPoints == {<<1, 1>>, <<3, 1>>, <<1, 3>>, <<2, 2>>, <<4, 4>>, <<0, 0>>, <<7, 1>>}

\* The grid table read from the Excel sheet: columns lat, lon and name, the
\* rows under the default index 0, 1, ...
GridTables ==
  UNION {{[columns |-> <<"lat", "lon", "name">>,
           rows |-> Mat([k \in 1..n |->
                      [index |-> k - 1, lat |-> f[k][2], lon |-> f[k][1], name |-> k]])] :
          f \in [1..n -> GridPoints]} : n \in 0..MaxPoints}

FilterInit ==
  /\ call_pc = "filter_call"
  /\ call_args \in [df : GridTables, polygon : FarmPolygons]
  /\ call_result = <<>>
  /\ MetIdle
  /\ ExtIdle
  /\ RunIdle

\* The call of line 199; df is the caller's table after the call.
FilterPointsInPolygon ==
  /\ call_pc = "filter_call"
  /\ call_result' = [df_selected |-> filter_points_in_polygon(call_args.df, call_args.polygon),
                     df |-> call_args.df]
  /\ call_pc' = "filter_done"
  /\ UNCHANGED call_args
  /\ UNCHANGED <<met_vars, ext_vars, run_vars>>

FilterNext == FilterPointsInPolygon

SpecFilter == FilterInit /\ [][FilterNext]_vars

----------------------------------------------------------------------------
(* The grid points inside the farm *)

\* The point lies strictly to the left of every edge of a convex ring given
\* counter-clockwise: it is inside and not on the boundary.
StrictlyInside(polygon, row) ==
  \E k \in DOMAIN polygon :
    \A e \in edges(polygon[k]) :
      cross(e[1], e[2], [x |-> row.lon, y |-> row.lat]) > 0

\* C29: filter_points_in_polygon returns exactly the rows whose (lon, lat)
\* lies strictly inside the farm geometry, in their order, every column
\* unchanged; the table given is not modified and no row is added or
\* duplicated.
C29_RowsStrictlyInside ==
  call_pc = "filter_done" =>
    LET df == call_args.df
        polygon == call_args.polygon
        selected == call_result.df_selected IN
    /\ selected.rows = SelectSeq(df.rows, LAMBDA row : StrictlyInside(polygon, row))
    /\ df.rows # <<>> => selected.columns = df.columns
    /\ call_result.df = df

\* Three grid points, one inside, one on the boundary and one outside, of
\* which the one inside is returned.
C29_Witness ==
  /\ call_pc = "filter_done"
  /\ Len(call_args.df.rows) = 3
  /\ Len(call_result.df_selected.rows) = 1
  /\ call_result.df_selected.rows[1].index = 1
  /\ \E k \in DOMAIN call_args.df.rows :
       \E j \in DOMAIN call_args.polygon :
         on_boundary(call_args.polygon[j], Point(call_args.df.rows[k]))

----------------------------------------------------------------------------
(* fix_calibration_notebook: the loop that rewrites the cell source *)

\* A source line is represented by the set of the texts the loop searches
\* for that occur in it.
SILO_OLD == "silo_pattern = f\"SILO_1986-2014"
SILO_STOP == "if files['silo_met']:"
BREAK == "break"
FUTURE_OLD == "future_pattern = f\"{model}_{scenario}_{lat_var}_{lon_var}.met\""
ELSE_STOP == "else:"
VP_OPEN == "vp_future_patterns = ["
VP_OLD == "f\"{model}_{scenario}_{lat_var}_{lon_var}_vp.csv\""
EVAP_OPEN == "evap_future_patterns = ["
EVAP_OLD == "f\"{model}_{scenario}_{lat_var}_{lon_var}_eto.csv\""

\* The lines appended by the first replacement, lines 42-55.
SILO_BLOCK ==
  << {},
     {},
     {},
     {},
     {},
     {},
     {},
     {},
     {},
     {BREAK},
     {SILO_STOP},
     {BREAK},
     {SILO_STOP},
     {BREAK} >>

\* The lines appended by the second replacement, lines 68-83.
FUTURE_BLOCK ==
  << {},
     {},
     {},
     {},
     {},
     {},
     {},
     {},
     {},
     {},
     {},
     {BREAK},
     {},
     {BREAK},
     {},
     {BREAK} >>

\* The lines appended by the third replacement, lines 92-107.
VP_BLOCK ==
  << {},
     {},
     {},
     {},
     {},
     {VP_OPEN},
     {},
     {},
     {},
     {},
     {},
     {},
     {},
     {BREAK},
     {},
     {BREAK} >>

\* The lines appended by the fourth replacement, lines 116-131.
EVAP_BLOCK ==
  << {},
     {},
     {},
     {},
     {},
     {EVAP_OPEN},
     {},
     {},
     {},
     {},
     {},
     {},
     {},
     {BREAK},
     {},
     {BREAK} >>

\* while i < len(source_lines) and text not in source_lines[i]: i += 1
\* The index is counted from 0 as in the code.
skip_until(source_lines, i, text) ==
  Min({k \in i..(Len(source_lines) - 1) : text \in source_lines[k + 1]}
      \cup {Len(source_lines)})

\* text in ''.join(source_lines[i:i+3])
in_next_three(source_lines, i, text) ==
  \E k \in i..(i + 2) : k < Len(source_lines) /\ text \in source_lines[k + 1]

\* One iteration of the loop of lines 35-135: the next value of i and the
\* lines appended to new_source.
iteration(source_lines, i) ==
  LET src_line == source_lines[i + 1] IN
  IF SILO_OLD \in src_line
  THEN LET j == skip_until(source_lines, i, SILO_STOP) IN
       [i |-> IF j < Len(source_lines) /\ BREAK \in source_lines[j + 1] THEN j + 1 ELSE j,
        appended |-> SILO_BLOCK]
  ELSE IF FUTURE_OLD \in src_line
  THEN [i |-> skip_until(source_lines, i, ELSE_STOP), appended |-> FUTURE_BLOCK]
  ELSE IF VP_OPEN \in src_line /\ in_next_three(source_lines, i, VP_OLD)
  THEN [i |-> skip_until(source_lines, i, ELSE_STOP), appended |-> VP_BLOCK]
  ELSE IF EVAP_OPEN \in src_line /\ in_next_three(source_lines, i, EVAP_OLD)
  THEN [i |-> skip_until(source_lines, i, ELSE_STOP), appended |-> EVAP_BLOCK]
  ELSE [i |-> i + 1, appended |-> <<src_line>>]

\* Number of lines of the cell.
MaxLines == 3

\* Lines of the cell: plain, the openings of the four old sections, the
\* lines the skips stop at, and old lines that carry a stop text as well.
SourceLines ==
  { {}, {SILO_OLD}, {SILO_STOP}, {BREAK}, {FUTURE_OLD}, {ELSE_STOP}, {VP_OPEN}, {VP_OLD},
    {EVAP_OPEN, EVAP_OLD}, {SILO_OLD, SILO_STOP}, {FUTURE_OLD, ELSE_STOP} }

\* new_source is followed up to this length.
MaxNewSource == 64

\* The script is at the head of its loop on any cell of up to MaxLines
\* lines; runs counts the updates of the cell so far.
RewriteInit ==
  /\ call_pc = "rewrite_loop"
  /\ \E n \in 0..MaxLines :
       call_args \in [source_lines : [1..n -> SourceLines]]
  /\ call_result = [source_lines |-> Mat(call_args.source_lines), i |-> 0,
                    i_before |-> -1, new_source |-> <<>>, updates |-> <<>>]
  /\ MetIdle
  /\ ExtIdle
  /\ RunIdle

\* One iteration of the while loop, lines 35-135.
RewriteIterate ==
  /\ call_pc = "rewrite_loop"
  /\ call_result.i < Len(call_result.source_lines)
  /\ Len(call_result.new_source) <= MaxNewSource
  /\ LET step == iteration(call_result.source_lines, call_result.i) IN
       call_result' = [call_result EXCEPT
         !.i = step.i, !.i_before = call_result.i,
         !.new_source = @ \o step.appended]
  /\ UNCHANGED call_pc
  /\ UNCHANGED call_args
  /\ UNCHANGED <<met_vars, ext_vars, run_vars>>

\* Lines 137-142: the loop has ended and new_source becomes the cell source.
RewriteUpdateCell ==
  /\ call_pc = "rewrite_loop"
  /\ call_result.i >= Len(call_result.source_lines)
  /\ call_result' = [call_result EXCEPT
       !.source_lines = call_result.new_source,
       !.updates = Append(@, call_result.new_source)]
  /\ call_pc' = "rewrite_written"
  /\ UNCHANGED call_args
  /\ UNCHANGED <<met_vars, ext_vars, run_vars>>

\* The script is run once more, on the cell it has written.
RewriteAgain ==
  /\ call_pc = "rewrite_written"
  /\ Len(call_result.updates) < 2
  /\ call_result' = [call_result EXCEPT
       !.i = 0, !.i_before = -1, !.new_source = <<>>]
  /\ call_pc' = "rewrite_loop"
  /\ UNCHANGED call_args
  /\ UNCHANGED <<met_vars, ext_vars, run_vars>>

RewriteNext == RewriteIterate \/ RewriteUpdateCell \/ RewriteAgain

SpecRewrite == RewriteInit /\ [][RewriteNext]_vars

----------------------------------------------------------------------------
(* Progress and idempotence of the rewrite *)

\* C30: the loop terminates on every cell, the line index being greater
\* after every iteration than before it, whether or not the iteration
\* replaced a section; and the rewrite of its own output is that output.
C30_RewriteTerminatesIdempotent ==
  call_pc \in {"rewrite_loop", "rewrite_written"} =>
    /\ call_result.i > call_result.i_before
    /\ Len(call_result.updates) = 2 => call_result.updates[2] = call_result.updates[1]

====
